---------------------------- MODULE Spec2Model ----------------------------
(***************************************************************************)
(* A model of cluster-api-provider-vsphere:                                *)
(*   - the session manager (package session: GetOrCreate, newClient,       *)
(*     newManager, clearCache and the keep-alive callback),                *)
(*   - the VSphereVM reconciler (vmReconciler),                            *)
(*   - the VSphereCluster reconciler (clusterReconciler) and its           *)
(*     background API-server poller.                                       *)
(* Each subsystem has its own specification; the variables of the other    *)
(* subsystems stay at their initial values under it.                       *)
(***************************************************************************)
EXTENDS Naturals, Integers, Sequences, FiniteSets, TLC

VARIABLES
    \* ---- session manager ----
    active,        \* the callers (goroutines) that invoke GetOrCreate
    choices,       \* the Params the callers pass to GetOrCreate
    sessionCache,  \* sessionCache (sync.Map): session key -> Session identity, 0 = no entry
    sessions,      \* every Session object allocated so far; its index is its identity
    vimLive,       \* platform (SOAP) sessions alive at the platform
    restLive,      \* tag-management (REST) sessions alive at the platform
    kaOn,          \* Sessions whose keep-alive ticker is running
    call,          \* per caller: the GetOrCreate invocation in progress
    clr,           \* per thread: the clearCache invocation in progress
    tmLogoutTried, \* Sessions on which clearCache called TagManager.Logout
    vimLogoutTried,\* Sessions on which clearCache called SessionManager.Logout
    lastStored,    \* per key: the Session most recently passed to sessionCache.Store
    \* ---- VSphereVM reconciler ----
    vmStore,       \* the VSphereVM resource as the API server holds it
    vmPlatform,    \* what the VM lifecycle service observes at the platform
    vmPass,        \* the vmReconciler.Reconcile pass in progress
    \* ---- VSphereCluster reconciler ----
    clActive,      \* the VSphereClusters that have a reconciler in this scenario
    clFaults,      \* whether calls of a pass may fail in this scenario
    clStore,       \* the VSphereCluster resources as the API server holds them
    capi,          \* the owner Cluster resources, by UID
    machines,      \* the number of VSphereMachines of each VSphereCluster
    zones,         \* the VSphereDeploymentZone resources
    secret,        \* the identity Secret the VSphereClusters refer to
    apiOnline,     \* per UID: the workload API server answers
    apiServerTriggers,    \* the UIDs that have a poller goroutine
    apiServerTriggersMu,  \* who holds the mutex of apiServerTriggers
    pollers,       \* the poller goroutines
    clPass,        \* per VSphereCluster: the Reconcile pass in progress
    clEvents,      \* per VSphereCluster: a GenericEvent waits for a pass
    \* ---- watch of the VSphereMachines ----
    machineEvent,  \* the last call of controlPlaneMachineToCluster
    \* ---- reconcileIdentitySecret, call by call ----
    idPass,        \* per VSphereCluster: its call of reconcileIdentitySecret
    secretRV       \* the resource version of the identity Secret

sessVars == <<active, choices, sessionCache, sessions, vimLive, restLive, kaOn, call, clr,
              tmLogoutTried, vimLogoutTried, lastStored>>

vmVars == <<vmStore, vmPlatform, vmPass>>

clVars == <<clActive, clFaults, clStore, capi, machines, zones, secret,
            apiOnline, apiServerTriggers, apiServerTriggersMu, pollers,
            clPass, clEvents>>

evVars == <<machineEvent>>

idVars == <<idPass, secretRV>>

vars == <<sessVars, vmVars, clVars, evVars, idVars>>

(***************************************************************************)
(*                          SESSION MANAGER                                *)
(***************************************************************************)

\* Bound: the number of Session objects ever allocated in one behaviour.
MaxSessions == 2

Callers == {1, 2}
Ids == 1..MaxSessions

Servers == {"vc", "", "%"}
Usernames == {"u", "ud"}
Passwords == {"p", "q"}
Datacenters == {"", "dc", "c"}
Thumbprints == {"", "tp"}

\* Params, as built by NewParams().With...(): the inputs of one GetOrCreate.
ParamChoices ==
    [server : Servers, username : Usernames, password : Passwords,
     datacenter : Datacenters, thumbprint : Thumbprints,
     keepAlive : BOOLEAN, refresh : BOOLEAN]

\* sessionKey := params.server + params.userinfo.Username() + params.datacenter
SessionKey(p) == p.server \o p.username \o p.datacenter

Keys == {SessionKey(p) : p \in ParamChoices}

\* soap.ParseURL as GetOrCreate observes it: (nil, nil) for the empty string,
\* an error for a string url.Parse rejects, a URL otherwise.
ParseURL(server) ==
    CASE server = "" -> "nil"
      [] server = "%" -> "err"
      [] OTHER -> "ok"

NoParams == [server |-> "", username |-> "", password |-> "", datacenter |-> "",
             thumbprint |-> "", keepAlive |-> FALSE, refresh |-> FALSE]

\* result: 0 = not returned yet, -1 = (nil, err), n > 0 = (&Session n, nil)
IdleCall == [pc |-> "idle", params |-> NoParams, cached |-> 0, hitVim |-> FALSE,
             hitRest |-> FALSE, built |-> 0, result |-> 0,
             vimLogins |-> 0, restLogins |-> 0, otherCalls |-> 0]

IdleClr == [pc |-> "idle", key |-> "", s |-> 0]

CallerThread(c) == <<"caller", c>>
KAThread(id) == <<"ka", id>>
Threads == ({"caller"} \X Callers) \cup ({"ka"} \X Ids)

\* Calls in flight that may still allocate a Session.
Unbuilt == {c \in Callers : call[c].pc \notin {"idle", "done"} /\ call[c].built = 0}

InitSessionVars ==
    /\ sessionCache = [k \in Keys |-> 0]
    /\ sessions = <<>>
    /\ vimLive = {}
    /\ restLive = {}
    /\ kaOn = {}
    /\ call = [c \in Callers |-> IdleCall]
    /\ clr = [t \in Threads |-> IdleClr]
    /\ tmLogoutTried = {}
    /\ vimLogoutTried = {}
    /\ lastStored = [k \in Keys |-> 0]


\* ---- GetOrCreate ----

\* A caller invokes GetOrCreate(ctx, params).
Begin(c, p) ==
    /\ UNCHANGED <<vmVars, clVars, evVars, idVars>>
    /\ c \in active
    /\ p \in choices
    /\ call[c].pc \in {"idle", "done"}
    /\ Len(sessions) + Cardinality(Unbuilt) < MaxSessions
    /\ call' = [call EXCEPT ![c] = [IdleCall EXCEPT !.pc = "load", !.params = p]]
    /\ UNCHANGED <<active, choices, sessionCache, sessions, vimLive, restLive, kaOn, clr,
                   tmLogoutTried, vimLogoutTried, lastStored>>

\* Mutant of ReturnCached: returnCached starts false, so a hit without forced
\* refresh is treated as a miss.
ReturnCachedOnlyOnRefresh(refresh, tagManagerSession) ==
    IF refresh THEN tagManagerSession # "nil" ELSE FALSE

\* Mutant of ReturnCached: the answer of the tag-manager probe is ignored.
ReturnCachedIgnoresProbe(refresh, tagManagerSession) == TRUE

\* returnCached after the cache hit: true unless a forced refresh found no
\* active tag-manager session.
ReturnCached(refresh, tagManagerSession) ==
    IF refresh THEN tagManagerSession # "nil" ELSE TRUE

\* The call enters the miss path: clearCache(logger, sessionKey) is invoked.
EnterMiss(c, rec) ==
    /\ call' = [call EXCEPT ![c] = [rec EXCEPT !.pc = "clearCache"]]
    /\ clr' = [clr EXCEPT ![CallerThread(c)] =
                  [pc |-> "load", key |-> SessionKey(rec.params), s |-> 0]]

\* sessionCache.Load(sessionKey) and, without forced refresh, the return of
\* the cached Session.
Load(c) ==
    /\ UNCHANGED <<vmVars, clVars, evVars, idVars>>
    /\ call[c].pc = "load"
    /\ LET p == call[c].params
           s == sessionCache[SessionKey(p)]
           rec == [call[c] EXCEPT !.cached = s, !.hitVim = (s \in vimLive),
                                  !.hitRest = (s \in restLive)]
       IN  IF s # 0
           THEN IF p.refresh
                THEN /\ call' = [call EXCEPT ![c] = [rec EXCEPT !.pc = "probe"]]
                     /\ UNCHANGED clr
                ELSE IF ReturnCached(FALSE, "nil")
                     THEN /\ call' = [call EXCEPT ![c] =
                                         [rec EXCEPT !.pc = "done", !.result = s]]
                          /\ UNCHANGED clr
                     ELSE EnterMiss(c, rec)
           ELSE EnterMiss(c, rec)
    /\ UNCHANGED <<active, choices, sessionCache, sessions, vimLive, restLive, kaOn,
                   tmLogoutTried, vimLogoutTried, lastStored>>

\* What s.TagManager.Session(ctx) can answer for Session s: the session when
\* the REST session is alive, nil when it is not; nil with an error at any time.
TagManagerSessionAnswers(s) ==
    IF s \in restLive THEN {"session", "nil"} ELSE {"nil"}

\* The forced refresh: probe the tag manager of the cached Session.
Probe(c) ==
    /\ UNCHANGED <<vmVars, clVars, evVars, idVars>>
    /\ call[c].pc = "probe"
    /\ \E ans \in TagManagerSessionAnswers(call[c].cached) :
         LET rec == [call[c] EXCEPT !.otherCalls = @ + 1]
         IN  IF ReturnCached(TRUE, ans)
             THEN /\ call' = [call EXCEPT ![c] =
                                 [rec EXCEPT !.pc = "done", !.result = rec.cached]]
                  /\ UNCHANGED clr
             ELSE EnterMiss(c, rec)
    /\ UNCHANGED <<active, choices, sessionCache, sessions, vimLive, restLive, kaOn,
                   tmLogoutTried, vimLogoutTried, lastStored>>

\* ---- clearCache, run by a GetOrCreate caller or by a keep-alive callback ----

\* sessionCache.Load(sessionKey) inside clearCache.
ClrLoad(t) ==
    /\ UNCHANGED <<vmVars, clVars, evVars, idVars>>
    /\ clr[t].pc = "load"
    /\ LET s == sessionCache[clr[t].key]
       IN  clr' = [clr EXCEPT ![t].s = s,
                              ![t].pc = IF s # 0 THEN "logoutTM" ELSE "delete"]
    /\ UNCHANGED <<active, choices, sessionCache, sessions, vimLive, restLive, kaOn, call,
                   tmLogoutTried, vimLogoutTried, lastStored>>

\* s.TagManager.Logout: best effort, an error is only logged.
ClrLogoutTM(t) ==
    /\ UNCHANGED <<vmVars, clVars, evVars, idVars>>
    /\ clr[t].pc = "logoutTM"
    /\ \E ok \in BOOLEAN :
         restLive' = IF ok THEN restLive \ {clr[t].s} ELSE restLive
    /\ tmLogoutTried' = tmLogoutTried \cup {clr[t].s}
    /\ clr' = [clr EXCEPT ![t].pc = "logoutVim"]
    /\ UNCHANGED <<active, choices, sessionCache, sessions, vimLive, kaOn, call,
                   vimLogoutTried, lastStored>>

\* s.SessionManager.Logout: best effort, an error is only logged. The logout
\* request passes the keep-alive round tripper, which stops its ticker.
ClrLogoutVim(t) ==
    /\ UNCHANGED <<vmVars, clVars, evVars, idVars>>
    /\ clr[t].pc = "logoutVim"
    /\ \E ok \in BOOLEAN :
         vimLive' = IF ok THEN vimLive \ {clr[t].s} ELSE vimLive
    /\ vimLogoutTried' = vimLogoutTried \cup {clr[t].s}
    /\ kaOn' = kaOn \ {clr[t].s}
    /\ clr' = [clr EXCEPT ![t].pc = "delete"]
    /\ UNCHANGED <<active, choices, sessionCache, sessions, restLive, call,
                   tmLogoutTried, lastStored>>

\* sessionCache.Delete(sessionKey)
CacheDeleteSkipped(cache, sessionKey) == cache
CacheDelete(cache, sessionKey) == [cache EXCEPT ![sessionKey] = 0]

\* sessionCache.Delete(sessionKey); clearCache returns. A caller goes on to
\* build the new Session; a keep-alive callback returns its error, which
\* stops that Session's keep-alive.
ClrDelete(t) ==
    /\ UNCHANGED <<vmVars, clVars, evVars, idVars>>
    /\ clr[t].pc = "delete"
    /\ sessionCache' = CacheDelete(sessionCache, clr[t].key)
    /\ clr' = [clr EXCEPT ![t] = IdleClr]
    /\ IF t[1] = "caller"
       THEN /\ call' = [call EXCEPT ![t[2]].pc = "newClient"]
            /\ UNCHANGED kaOn
       ELSE /\ kaOn' = kaOn \ {t[2]}
            /\ UNCHANGED call
    /\ UNCHANGED <<active, choices, sessions, vimLive, restLive,
                   tmLogoutTried, vimLogoutTried, lastStored>>


\* ---- the miss path after clearCache ----

\* GetOrCreate returns (nil, err).
Fail(c, rec) ==
    call' = [call EXCEPT ![c] = [rec EXCEPT !.pc = "done", !.result = -1]]

\* The Session object GetOrCreate builds once newClient has logged in.
NewSessionDefaultCredentials(c, p) ==
    [key |-> SessionKey(p), server |-> p.server, username |-> p.username,
     password |-> "p", thumbprint |-> "",
     datacenter |-> p.datacenter, keepAlive |-> p.keepAlive,
     tagManager |-> FALSE, dcSet |-> FALSE, owner |-> c]
NewSession(c, p) ==
    [key |-> SessionKey(p), server |-> p.server, username |-> p.username,
     password |-> p.password, thumbprint |-> p.thumbprint,
     datacenter |-> p.datacenter, keepAlive |-> p.keepAlive,
     tagManager |-> FALSE, dcSet |-> FALSE, owner |-> c]

\* soap.ParseURL, then newClient: the keep-alive handler is attached when the
\* feature is enabled and c.Login authenticates at the platform.
NewClient(c) ==
    /\ UNCHANGED <<vmVars, clVars, evVars, idVars>>
    /\ call[c].pc = "newClient"
    /\ LET p == call[c].params
       IN  IF ParseURL(p.server) # "ok"
           THEN /\ Fail(c, call[c])
                /\ UNCHANGED <<sessions, vimLive, kaOn>>
           ELSE \E ok \in BOOLEAN :
                  LET rec == [call[c] EXCEPT !.vimLogins = @ + 1]
                      id == Len(sessions) + 1
                  IN  IF ok
                      THEN /\ sessions' = Append(sessions, NewSession(c, p))
                           /\ vimLive' = vimLive \cup {id}
                           /\ kaOn' = IF p.keepAlive THEN kaOn \cup {id} ELSE kaOn
                           /\ call' = [call EXCEPT ![c] =
                                          [rec EXCEPT !.pc = "newManager", !.built = id]]
                      ELSE /\ Fail(c, rec)
                           /\ UNCHANGED <<sessions, vimLive, kaOn>>
    /\ UNCHANGED <<active, choices, sessionCache, restLive, clr,
                   tmLogoutTried, vimLogoutTried, lastStored>>

\* sessionCache.Store(sessionKey, &session); GetOrCreate returns the Session.
Store(c, rec) ==
    /\ sessionCache' = [sessionCache EXCEPT ![SessionKey(rec.params)] = rec.built]
    /\ lastStored' = [lastStored EXCEPT ![SessionKey(rec.params)] = rec.built]
    /\ call' = [call EXCEPT ![c] = [rec EXCEPT !.pc = "done", !.result = rec.built]]

\* Mutant of NewManager: the Session is cached as soon as the tag manager is
\* logged in, before the datacenter is resolved.
NewManagerStoresEarly(c) ==
    /\ UNCHANGED <<vmVars, clVars, evVars, idVars>>
    /\ call[c].pc = "newManager"
    /\ \E ok \in BOOLEAN :
         LET rec == [call[c] EXCEPT !.restLogins = @ + 1]
             id == call[c].built
             k == SessionKey(rec.params)
         IN  IF ok
             THEN /\ restLive' = restLive \cup {id}
                  /\ sessions' = [sessions EXCEPT ![id].tagManager = TRUE]
                  /\ sessionCache' = [sessionCache EXCEPT ![k] = id]
                  /\ lastStored' = [lastStored EXCEPT ![k] = id]
                  /\ call' = [call EXCEPT ![c] =
                        IF rec.params.datacenter # ""
                        THEN [rec EXCEPT !.pc = "datacenter"]
                        ELSE [rec EXCEPT !.pc = "done", !.result = id]]
             ELSE /\ Fail(c, rec)
                  /\ UNCHANGED <<restLive, sessions, sessionCache, lastStored>>
    /\ UNCHANGED <<active, choices, vimLive, kaOn, clr, tmLogoutTried, vimLogoutTried>>

\* newManager: a second, independent login of the REST client; without a
\* datacenter the Session is complete and is cached.
NewManager(c) ==
    /\ UNCHANGED <<vmVars, clVars, evVars, idVars>>
    /\ call[c].pc = "newManager"
    /\ \E ok \in BOOLEAN :
         LET rec == [call[c] EXCEPT !.restLogins = @ + 1]
             id == call[c].built
         IN  IF ok
             THEN /\ restLive' = restLive \cup {id}
                  /\ sessions' = [sessions EXCEPT ![id].tagManager = TRUE]
                  /\ IF rec.params.datacenter # ""
                     THEN /\ call' = [call EXCEPT ![c] = [rec EXCEPT !.pc = "datacenter"]]
                          /\ UNCHANGED <<sessionCache, lastStored>>
                     ELSE Store(c, rec)
             ELSE /\ Fail(c, rec)
                  /\ UNCHANGED <<restLive, sessions, sessionCache, lastStored>>
    /\ UNCHANGED <<active, choices, vimLive, kaOn, clr, tmLogoutTried, vimLogoutTried>>

\* session.Finder.Datacenter: a failure fails the whole call; on success the
\* Session is complete and is cached.
ResolveDatacenter(c) ==
    /\ UNCHANGED <<vmVars, clVars, evVars, idVars>>
    /\ call[c].pc = "datacenter"
    /\ \E ok \in BOOLEAN :
         LET rec == [call[c] EXCEPT !.otherCalls = @ + 1]
             id == call[c].built
         IN  IF ok
             THEN /\ sessions' = [sessions EXCEPT ![id].dcSet = TRUE]
                  /\ Store(c, rec)
             ELSE /\ Fail(c, rec)
                  /\ UNCHANGED <<sessions, sessionCache, lastStored>>
    /\ UNCHANGED <<active, choices, vimLive, restLive, kaOn, clr, tmLogoutTried, vimLogoutTried>>

\* ---- keep-alive ----

\* The keep-alive callback of Session id: methods.GetCurrentTime fails because
\* the platform session is gone, and the callback calls clearCache for the key
\* the Session was created under. A probe that succeeds changes nothing.
KeepAliveFail(id) ==
    /\ UNCHANGED <<vmVars, clVars, evVars, idVars>>
    /\ id \in kaOn
    /\ id \notin vimLive
    /\ clr[KAThread(id)].pc = "idle"
    /\ clr' = [clr EXCEPT ![KAThread(id)] =
                  [pc |-> "load", key |-> sessions[id].key, s |-> 0]]
    /\ UNCHANGED <<active, choices, sessionCache, sessions, vimLive, restLive, kaOn, call,
                   tmLogoutTried, vimLogoutTried, lastStored>>

\* ---- the platform, out of band ----

\* The platform ends a SOAP session (idle timeout, session.rm).
PlatformDropVim(id) ==
    /\ UNCHANGED <<vmVars, clVars, evVars, idVars>>
    /\ id \in vimLive
    /\ vimLive' = vimLive \ {id}
    /\ UNCHANGED <<active, choices, sessionCache, sessions, restLive, kaOn, call, clr,
                   tmLogoutTried, vimLogoutTried, lastStored>>

\* The platform ends a REST session (idle timeout, a logout by the user).
PlatformDropRest(id) ==
    /\ UNCHANGED <<vmVars, clVars, evVars, idVars>>
    /\ id \in restLive
    /\ restLive' = restLive \ {id}
    /\ UNCHANGED <<active, choices, sessionCache, sessions, vimLive, kaOn, call, clr,
                   tmLogoutTried, vimLogoutTried, lastStored>>

NextSession ==
    \/ \E c \in Callers, p \in choices : Begin(c, p)
    \/ \E c \in Callers : Load(c)
    \/ \E c \in Callers : Probe(c)
    \/ \E t \in Threads : ClrLoad(t)
    \/ \E t \in Threads : ClrLogoutTM(t)
    \/ \E t \in Threads : ClrLogoutVim(t)
    \/ \E t \in Threads : ClrDelete(t)
    \/ \E c \in Callers : NewClient(c)
    \/ \E c \in Callers : NewManager(c)
    \/ \E c \in Callers : ResolveDatacenter(c)
    \/ \E id \in Ids : KeepAliveFail(id)
    \/ \E id \in Ids : PlatformDropVim(id)
    \/ \E id \in Ids : PlatformDropRest(id)

\* The Params of one user with one password, without thumbprint, and with
\* no datacenter or the datacenter "dc".
PlainChoices ==
    {p \in ParamChoices :
        /\ p.username = "u" /\ p.password = "p" /\ p.thumbprint = ""
        /\ p.datacenter \in {"", "dc"}}

\* The Params of callers that share one key and enable keep-alive.
SameKeyChoices ==
    {p \in PlainChoices : p.server = "vc" /\ p.datacenter = "dc" /\ p.keepAlive}

\* One Params whose server does not parse.
BadServerChoices ==
    {p \in PlainChoices :
        p.server = "" /\ p.datacenter = "dc" /\ ~p.keepAlive /\ ~p.refresh}

\* Every Params with a server that parses, and one for each server that does not.
SeqChoices ==
    {p \in PlainChoices :
        ParseURL(p.server) = "ok"
        \/ (p.datacenter = "dc" /\ ~p.keepAlive /\ ~p.refresh)}

\* Params for the server "vc": a user with the datacenter "dc", keep-alive
\* enabled; the same with a forced refresh; the same with another password;
\* the same with a thumbprint; and another user with another datacenter.
BaseParams ==
    [server |-> "vc", username |-> "u", password |-> "p", datacenter |-> "dc",
     thumbprint |-> "", keepAlive |-> FALSE, refresh |-> FALSE]
CredentialChoices ==
    { [BaseParams EXCEPT !.keepAlive = TRUE],
      [BaseParams EXCEPT !.refresh = TRUE],
      [BaseParams EXCEPT !.password = "q"],
      [BaseParams EXCEPT !.thumbprint = "tp"],
      [BaseParams EXCEPT !.username = "ud", !.datacenter = "c"] }

\* One caller at a time.
InitSessionSeq == active = {1} /\ choices = SeqChoices /\ InitSessionVars
\* One caller at a time, with Params of several users, passwords and
\* thumbprints.
InitSessionCredentials ==
    active = {1} /\ choices = CredentialChoices /\ InitSessionVars
\* Two callers that may run GetOrCreate concurrently, for the same key when
\* the server parses.
InitSession ==
    /\ active = Callers
    /\ choices = SameKeyChoices \cup BadServerChoices
    /\ InitSessionVars

(***************************************************************************)
(* VSphereVM reconciler (package controllers, vmReconciler).               *)
(*                                                                         *)
(* One VSphereVM resource, one worker.  A pass is the body of Reconcile    *)
(* up to its return statement, then the deferred patch, then the deferred  *)
(* poll of the store.  The lifecycle service, the session manager, the     *)
(* owner lookups and the other writers of the resource are environment.    *)
(***************************************************************************)

\* Largest resource version at which a pass or another writer still starts.
MaxVersion == 4

\* reconcile.Result{RequeueAfter: 10 * time.Second}
TenSeconds == 10

\* Condition values: "" is an unset condition, "True", or "False:<reason>".
CondTrue == "True"
WaitingForStaticIPAllocationReason == "False:WaitingForStaticIPAllocation"
DeletingReason == "False:Deleting"
DeletionFailedReason == "False:DeletionFailed"
VCenterUnreachableReason == "False:VCenterUnreachable"

IsFalse(cond) == cond \notin {"", CondTrue}

\* Network device specifications of the resource.
DeviceDHCP == [dhcp4 |-> TRUE, dhcp6 |-> FALSE, ipAddrs |-> <<>>]
DeviceStatic == [dhcp4 |-> FALSE, dhcp6 |-> FALSE, ipAddrs |-> <<>>]
DeviceChoices == {<<DeviceDHCP>>, <<DeviceStatic>>, <<DeviceDHCP, DeviceStatic>>}

\* What the lifecycle service reports: a state, a BIOS UUID and the network
\* status of the interfaces.
NetNone == <<>>
NetNoAddress == <<[ipAddrs |-> <<>>]>>
NetOnline == <<[ipAddrs |-> <<>>], [ipAddrs |-> <<"10.0.0.1">>]>>
VMReports ==
    { [state |-> "pending",  biosUUID |-> "",    network |-> NetNone],
      [state |-> "ready",    biosUUID |-> "",    network |-> NetOnline],
      [state |-> "ready",    biosUUID |-> "abc", network |-> NetNoAddress],
      [state |-> "ready",    biosUUID |-> "abc", network |-> NetOnline],
      [state |-> "ready",    biosUUID |-> "xyz", network |-> NetOnline],
      [state |-> "notfound", biosUUID |-> "",    network |-> NetNone] }

\* No report: the lifecycle service was not called, or it failed.
NoReport == [state |-> "none", biosUUID |-> "", network |-> NetNone]

\* A VSphereVM as created by its owner: no finalizer, no BIOS UUID, an empty
\* status.
NewVM(devices) ==
    [ exists      |-> TRUE,
      rv          |-> 1,
      deleting    |-> FALSE,
      finalizer   |-> FALSE,
      biosUUID    |-> "",
      devices     |-> devices,
      failed      |-> FALSE,
      network     |-> NetNone,
      addresses   |-> <<>>,
      ready       |-> FALSE,
      provisioned |-> "",
      vcenter     |-> "",
      readyCond   |-> "" ]

\* VSphereVM.Status, the part cmp.Equal compares in the deferred poll.
StatusOf(vm) ==
    <<vm.failed, vm.network, vm.addresses, vm.ready,
      vm.provisioned, vm.vcenter, vm.readyCond>>

\* The fields a pass may change, hence the fields its patch may carry.
PatchFields ==
    {"finalizer", "biosUUID", "network", "addresses", "ready",
     "provisioned", "vcenter", "readyCond"}

IdleVMPass ==
    [ pc           |-> "idle",
      local        |-> NewVM(<<>>),
      entry        |-> NewVM(<<>>),
      path         |-> "none",
      creds        |-> "none",
      lookup       |-> "none",
      observed     |-> "none",
      report       |-> NoReport,
      err          |-> "",
      requeueAfter |-> 0,
      patched      |-> "none" ]

InitVMVars ==
    /\ \E d \in DeviceChoices : vmStore = NewVM(d)
    /\ vmPlatform \in {r \in VMReports : r.state # "ready"}
    /\ vmPass = IdleVMPass

\* The VM reconciler at rest, for the specifications of the other parts.
InitVMQuiet ==
    /\ vmStore = NewVM(<<DeviceDHCP>>)
    /\ vmPlatform = [state |-> "pending", biosUUID |-> "", network |-> NetNone]
    /\ vmPass = IdleVMPass

\* ---- retrieveVcenterSession ----

\* What the lookups of retrieveVcenterSession find.  A lookup that the code
\* does not reach is recorded as FALSE.
SessionLookups ==
    { in \in [ clusterFound        : BOOLEAN,
               vsphereClusterFound : BOOLEAN,
               identityRef         : BOOLEAN,
               credentialsOk       : BOOLEAN,
               getOrCreateOk       : BOOLEAN ] :
        /\ in.vsphereClusterFound => in.clusterFound
        /\ in.identityRef => in.vsphereClusterFound
        /\ in.credentialsOk => in.identityRef
        /\ (in.identityRef /\ ~in.credentialsOk) => ~in.getOrCreateOk }

\* The credentials handed to session.GetOrCreate ("none" when it is not
\* called) and whether the retrieval fails.
RetrieveVcenterSessionWithFallback(in) ==
    IF in.identityRef /\ in.credentialsOk
    THEN [creds |-> "identity", err |-> ~in.getOrCreateOk]
    ELSE [creds |-> "manager", err |-> ~in.getOrCreateOk]
RetrieveVcenterSession(in) ==
    IF ~in.clusterFound \/ ~in.vsphereClusterFound
    THEN [creds |-> "manager", err |-> ~in.getOrCreateOk]
    ELSE IF in.identityRef
    THEN IF ~in.credentialsOk
         THEN [creds |-> "none", err |-> TRUE]
         ELSE [creds |-> "identity", err |-> ~in.getOrCreateOk]
    ELSE [creds |-> "manager", err |-> ~in.getOrCreateOk]

\* The branch retrieveVcenterSession took, for the record of the pass.
LookupOf(in) ==
    IF ~in.clusterFound \/ ~in.vsphereClusterFound THEN "notFound"
    ELSE IF ~in.identityRef THEN "noIdentityRef"
    ELSE IF ~in.credentialsOk THEN "credentialsErr"
    ELSE "identityRef"

\* ---- reconcileNormal ----

NeverWaitingForStaticIPAllocation(devices) == FALSE

RECURSIVE IsWaitingForStaticIPAllocation(_)
IsWaitingForStaticIPAllocation(devices) ==
    IF devices = <<>> THEN FALSE
    ELSE LET dev == Head(devices) IN
         IF ~dev.dhcp4 /\ ~dev.dhcp6 /\ Len(dev.ipAddrs) = 0
         THEN TRUE
         ELSE IsWaitingForStaticIPAllocation(Tail(devices))

RECURSIVE IPAddrsOf(_)
IPAddrsOfFirst(network) ==
    IF network = <<>> THEN <<>> ELSE Head(network).ipAddrs
IPAddrsOf(network) ==
    IF network = <<>> THEN <<>>
    ELSE Head(network).ipAddrs \o IPAddrsOf(Tail(network))

reconcileNetwork(vm, network) ==
    [vm EXCEPT !.network = network, !.addresses = IPAddrsOf(network)]

\* The first check of reconcileNormal: Status.FailureReason or
\* Status.FailureMessage is set.
NoFailureRecorded(vm) == FALSE
FailureRecorded(vm) == vm.failed

\* The defensive check of reconcileNormal: the reported BIOS UUID is taken
\* only when it is not empty.
AcceptAnyBiosUUID(reported) == TRUE
AcceptBiosUUID(reported) == reported # ""

\* if len(ctx.VSphereVM.Status.Addresses) == 0
AlwaysHasAddresses(vm) == FALSE
HasNoAddresses(vm) == Len(vm.addresses) = 0

\* reconcileNormal on the fetched resource vm, with the lifecycle service
\* reporting `report`, or failing when svcErr.  `report` in the result is the
\* report the pass consumed, NoReport when ReconcileVM was not called or failed.
vmReconcileNormal(vm, report, svcErr) ==
    IF FailureRecorded(vm)
    THEN [vm |-> vm, err |-> "", requeueAfter |-> 0, report |-> NoReport]
    ELSE
    LET withFinalizer == [vm EXCEPT !.finalizer = TRUE] IN
    IF IsWaitingForStaticIPAllocation(withFinalizer.devices)
    THEN [vm |-> [withFinalizer EXCEPT
                     !.provisioned = WaitingForStaticIPAllocationReason],
          err |-> "", requeueAfter |-> 0, report |-> NoReport]
    ELSE IF svcErr
    THEN [vm |-> withFinalizer, err |-> "failed to reconcile VM",
          requeueAfter |-> 0, report |-> NoReport]
    ELSE IF report.state # "ready"
    THEN [vm |-> withFinalizer, err |-> "", requeueAfter |-> 0,
          report |-> report]
    ELSE IF ~AcceptBiosUUID(report.biosUUID)
    THEN [vm |-> withFinalizer, err |-> "bios uuid is empty while VM is ready",
          requeueAfter |-> 0, report |-> report]
    ELSE
    LET withNetwork ==
            reconcileNetwork([withFinalizer EXCEPT !.biosUUID = report.biosUUID],
                             report.network)
    IN  IF HasNoAddresses(withNetwork)
        THEN [vm |-> withNetwork, err |-> "", requeueAfter |-> TenSeconds,
              report |-> report]
        ELSE [vm |-> [withNetwork EXCEPT !.ready = TRUE,
                                         !.provisioned = CondTrue],
              err |-> "", requeueAfter |-> 0, report |-> report]

\* ---- reconcileDelete ----

\* if vm.State != infrav1.VirtualMachineStateNotFound
AnyStateIsNotFound(state) == TRUE
StateIsNotFound(state) == state = "notfound"

\* DestroyVM answers with the state of the platform VM, or fails when svcErr.
vmReconcileDelete(vm, report, svcErr) ==
    LET deleting == [vm EXCEPT !.provisioned = DeletingReason] IN
    IF svcErr
    THEN [vm |-> [deleting EXCEPT !.provisioned = DeletionFailedReason],
          err |-> "failed to destroy VM", requeueAfter |-> 0,
          report |-> NoReport]
    ELSE IF ~StateIsNotFound(report.state)
    THEN [vm |-> deleting, err |-> "", requeueAfter |-> 0,
          report |-> report]
    ELSE [vm |-> [deleting EXCEPT !.finalizer = FALSE],
          err |-> "", requeueAfter |-> 0, report |-> report]

\* ---- Reconcile ----

\* What the owner lookups of Reconcile find.
OwnerLookups ==
    {"haproxy", "noVSphereMachine", "machineErr", "noMachine",
     "failureDomainErr", "found"}

\* The error a pass returns is "" for none, else a word for its origin.
\* A return of Reconcile that precedes the registration of the deferred
\* patch: nothing of the pass is written.
VMReturnEarly(path, local, creds, lookup, err) ==
    vmPass' = [IdleVMPass EXCEPT !.local = local, !.entry = vmStore,
                                 !.path = path, !.creds = creds,
                                 !.lookup = lookup, !.err = err]

\* conditions.SetSummary over VMProvisioned and VCenterAvailable.
SetSummary(vm) ==
    [vm EXCEPT !.readyCond =
        IF IsFalse(vm.vcenter) THEN vm.vcenter
        ELSE IF IsFalse(vm.provisioned) THEN vm.provisioned
        ELSE IF vm.provisioned = "" /\ vm.vcenter = "" THEN @
        ELSE CondTrue]

\* The body of Reconcile up to its return statement.
VMReconcile(getErr, in, owner, paused, svcErr) ==
    /\ UNCHANGED <<sessVars, clVars, evVars, idVars>>
    /\ vmPass.pc = "idle"
    /\ vmStore.rv < MaxVersion
    /\ UNCHANGED <<vmStore, vmPlatform>>
    /\ IF ~vmStore.exists
       THEN VMReturnEarly("notFound", vmStore, "none", "none", "")
       ELSE IF getErr
       THEN VMReturnEarly("getErr", vmStore, "none", "none", "get")
       ELSE
       LET sess == RetrieveVcenterSession(in) IN
       IF sess.err
       THEN VMReturnEarly("sessionErr",
                          [vmStore EXCEPT !.vcenter = VCenterUnreachableReason],
                          sess.creds, LookupOf(in), "session")
       ELSE
       LET vm == [vmStore EXCEPT !.vcenter = CondTrue] IN
       IF owner = "noVSphereMachine"
       THEN VMReturnEarly("noVSphereMachine", vm, sess.creds, LookupOf(in), "")
       ELSE IF owner = "machineErr"
       THEN VMReturnEarly("machineErr", vm, sess.creds, LookupOf(in),
                          "owner machine")
       ELSE IF owner = "noMachine"
       THEN VMReturnEarly("noMachine", vm, sess.creds, LookupOf(in), "")
       ELSE IF owner = "failureDomainErr"
       THEN VMReturnEarly("failureDomainErr", vm, sess.creds, LookupOf(in),
                          "failed to find vsphere failure domain")
       ELSE
       LET out ==
               IF in.clusterFound /\ paused
               THEN [vm |-> vm, err |-> "", requeueAfter |-> 0,
                     report |-> NoReport]
               ELSE IF vm.deleting
               THEN vmReconcileDelete(vm, vmPlatform, svcErr)
               ELSE vmReconcileNormal(vm, vmPlatform, svcErr)
       IN  vmPass' =
               [ pc           |-> "patch",
                 local        |-> out.vm,
                 entry        |-> vmStore,
                 path         |-> IF in.clusterFound /\ paused THEN "paused"
                                  ELSE IF vm.deleting THEN "delete"
                                  ELSE "normal",
                 creds        |-> sess.creds,
                 lookup       |-> LookupOf(in),
                 observed     |-> "none",
                 report       |-> out.report,
                 err          |-> out.err,
                 requeueAfter |-> out.requeueAfter,
                 patched      |-> "none" ]

\* A patch that writes every field of `local`, changed or not.
PatchedUnconditionally(store, entry, local) ==
    [f \in DOMAIN store |->
        IF f \in PatchFields THEN local[f]
        ELSE IF f = "rv" THEN store.rv + 1
        ELSE store[f]]

\* The resource after a patch of the differences between `entry` and `local`.
\* A resource that is being deleted goes away with its last finalizer.
Patched(store, entry, local) ==
    LET changed == {f \in PatchFields : local[f] # entry[f]}
        merged == [f \in DOMAIN store |->
                      IF f \in changed THEN local[f]
                      ELSE IF f = "rv" /\ changed # {} THEN store.rv + 1
                      ELSE store[f]]
    IN  IF merged.deleting /\ ~merged.finalizer
        THEN [merged EXCEPT !.exists = FALSE]
        ELSE merged

\* if err := Patch(); err != nil { if reterr == nil { reterr = err } }: the
\* error a pass reports, given the error its logic returned and whether the
\* deferred patch failed.  Both reconcilers have these lines.
PatchErrorReplaces(reterr, patchFailed) ==
    IF patchFailed THEN "patch" ELSE reterr
ReportedError(reterr, patchFailed) ==
    IF patchFailed /\ reterr = "" THEN "patch" ELSE reterr

\* The deferred function of Reconcile, first half: the summary condition and
\* the patch.  A patch error becomes the error of the pass only when the pass
\* has none.
VMPatch(ok) ==
    /\ UNCHANGED <<sessVars, clVars, evVars, idVars>>
    /\ vmPass.pc = "patch"
    /\ UNCHANGED vmPlatform
    /\ LET local == SetSummary(vmPass.local) IN
       IF ok /\ vmStore.exists
       THEN /\ vmStore' = Patched(vmStore, vmPass.entry, local)
            /\ vmPass' = [vmPass EXCEPT !.pc = "poll", !.local = local,
                                        !.patched = "ok"]
       ELSE /\ UNCHANGED vmStore
            /\ vmPass' = [vmPass EXCEPT !.pc = "poll", !.local = local,
                                        !.patched = "failed",
                                        !.err = ReportedError(@, TRUE)]

\* The condition function of the deferred poll: TRUE ends the poll.
PollDoneOnlyWhenGone(getErr) == ~vmStore.exists
PollDone(getErr) ==
    IF ~vmStore.exists THEN TRUE
    ELSE IF getErr THEN FALSE
    ELSE IF vmPass.local.rv # vmStore.rv THEN TRUE
    ELSE StatusOf(vmPass.local) = StatusOf(vmStore)

\* The deferred function of Reconcile, second half: one round of the poll.
\* A round that does not end the poll records which of its two `return false`
\* statements it took, and the poll sleeps.
VMPoll(getErr) ==
    /\ UNCHANGED <<sessVars, clVars, evVars, idVars>>
    /\ vmPass.pc = "poll"
    /\ UNCHANGED <<vmStore, vmPlatform>>
    /\ vmPass' = IF PollDone(getErr)
                 THEN [vmPass EXCEPT !.pc = "idle"]
                 ELSE [vmPass EXCEPT !.pc = "sleep",
                                     !.observed = IF getErr THEN "getErr"
                                                  ELSE "notPatched"]

\* wait.PollImmediateInfinite(time.Second*1, ...): the interval passes and
\* the next round starts; there is no timeout.
VMPollSleep ==
    /\ UNCHANGED <<sessVars, clVars, evVars, idVars>>
    /\ vmPass.pc = "sleep"
    /\ UNCHANGED <<vmStore, vmPlatform>>
    /\ vmPass' = [vmPass EXCEPT !.pc = "poll", !.observed = "none"]

\* ---- environment of the VM reconciler ----

\* The platform VM changes state.
PlatformChange(r) ==
    /\ UNCHANGED <<sessVars, clVars, evVars, idVars>>
    /\ r # vmPlatform
    /\ vmPlatform' = r
    /\ UNCHANGED <<vmStore, vmPass>>

\* The resource is deleted through the API: with a finalizer it gets a
\* deletion timestamp, without one it goes away.
VMMarkDeleted ==
    /\ UNCHANGED <<sessVars, clVars, evVars, idVars>>
    /\ vmStore.exists
    /\ ~vmStore.deleting
    /\ vmStore.rv < MaxVersion
    /\ vmStore' = IF vmStore.finalizer
                  THEN [vmStore EXCEPT !.deleting = TRUE, !.rv = @ + 1]
                  ELSE [vmStore EXCEPT !.exists = FALSE]
    /\ UNCHANGED <<vmPlatform, vmPass>>

\* Another writer sets or clears Status.FailureReason / FailureMessage.
VMSetFailure(failed) ==
    /\ UNCHANGED <<sessVars, clVars, evVars, idVars>>
    /\ vmStore.exists
    /\ vmStore.failed # failed
    /\ vmStore.rv < MaxVersion
    /\ vmStore' = [vmStore EXCEPT !.failed = failed, !.rv = @ + 1]
    /\ UNCHANGED <<vmPlatform, vmPass>>

RECURSIVE AssignAddresses(_)
AssignAddresses(devices) ==
    IF devices = <<>> THEN <<>>
    ELSE LET dev == Head(devices) IN
         <<IF ~dev.dhcp4 /\ ~dev.dhcp6 /\ Len(dev.ipAddrs) = 0
           THEN [dev EXCEPT !.ipAddrs = <<"10.0.0.2">>]
           ELSE dev>> \o AssignAddresses(Tail(devices))

\* The address manager fills in the static addresses of the devices.
VMAssignStaticIP ==
    /\ UNCHANGED <<sessVars, clVars, evVars, idVars>>
    /\ vmStore.exists
    /\ IsWaitingForStaticIPAllocation(vmStore.devices)
    /\ vmStore.rv < MaxVersion
    /\ vmStore' = [vmStore EXCEPT !.devices = AssignAddresses(@), !.rv = @ + 1]
    /\ UNCHANGED <<vmPlatform, vmPass>>

\* The outcomes of the calls one pass makes.  A call that the pass does not
\* reach is recorded as FALSE, an owner lookup as "found".
VMInputs ==
    { i \in [ getErr : BOOLEAN, lookups : SessionLookups,
              owner : OwnerLookups, paused : BOOLEAN, svcErr : BOOLEAN ] :
        LET sessionErr == RetrieveVcenterSession(i.lookups).err
            early == i.getErr \/ sessionErr
                        \/ i.owner \notin {"haproxy", "found"}
        IN  /\ i.getErr =>
                   i.lookups = [ clusterFound |-> FALSE,
                                 vsphereClusterFound |-> FALSE,
                                 identityRef |-> FALSE,
                                 credentialsOk |-> FALSE,
                                 getOrCreateOk |-> FALSE ]
            /\ (i.getErr \/ sessionErr) => i.owner = "found"
            /\ i.paused => (i.lookups.clusterFound /\ ~early)
            /\ i.svcErr => (~early /\ ~i.paused) }

NextVM ==
    \/ \E i \in VMInputs :
            VMReconcile(i.getErr, i.lookups, i.owner, i.paused, i.svcErr)
    \/ \E ok \in BOOLEAN : VMPatch(ok)
    \/ \E getErr \in BOOLEAN : VMPoll(getErr)
    \/ VMPollSleep
    \/ \E r \in VMReports : PlatformChange(r)
    \/ VMMarkDeleted
    \/ \E failed \in BOOLEAN : VMSetFailure(failed)
    \/ VMAssignStaticIP

(***************************************************************************)
(* VSphereCluster reconciler (package controllers, clusterReconciler).     *)
(*                                                                         *)
(* A pass is the body of Reconcile, in steps where it meets other          *)
(* goroutines: up to the call of                                           *)
(* reconcileVSphereClusterWhenAPIServerIsOnline, the lock, the membership  *)
(* check, the insertion and the spawn, the unlock, the rest of             *)
(* reconcileNormal, and the deferred patch.  A Deleting pass is one step   *)
(* and its patch.  The owner Cluster, the machines, the deployment zones,  *)
(* the identity secret and the workload API server are environment.        *)
(***************************************************************************)

\* The VSphereCluster resources and the UIDs of the Clusters that own them.
VSphereClusters == {1, 2}
UIDs == {1, 2}
\* No owner reference; an owner that is not one of the resources above.
NoOwner == 0
OtherOwner == 9

\* Most VSphereMachines of one cluster; most poller goroutines alive at once.
MaxMachines == 2
MaxPollers == 2
PollerIds == 1..MaxPollers

WaitingForFailureDomainStatusReason == "False:WaitingForFailureDomainStatus"
FailureDomainsSkippedReason == "False:FailureDomainsSkipped"

\* The annotation vsphere.infrastructure.cluster.x-k8s.io/adopt-deploymentzone:
\* absent, or a string, written as the sequence of its characters.
NoAnnotation == [exists |-> FALSE, value |-> <<>>]
Annotation(chars) == [exists |-> TRUE, value |-> chars]

\* A VSphereCluster as created: no finalizer, an empty status.
NewVSphereCluster(owner, identityRef, adopt) ==
    [ exists         |-> TRUE,
      deleting       |-> FALSE,
      finalizer      |-> FALSE,
      owner          |-> owner,
      identityRef    |-> identityRef,
      adopt          |-> adopt,
      server         |-> "vc",
      endpoint       |-> FALSE,
      failureDomains |-> {},
      fdAvailable    |-> "",
      vcenter        |-> "",
      ccm            |-> "",
      csi            |-> "",
      ready          |-> FALSE ]

\* The fields a pass may change, hence the fields its patch may carry.
ClusterPatchFields ==
    {"finalizer", "failureDomains", "fdAvailable", "vcenter", "ccm", "csi",
     "ready"}

\* The owner Cluster as a pass fetched it: ctx.Cluster.
NoCluster == [uid |-> NoOwner, cpInit |-> FALSE, deleting |-> FALSE]

\* The identity Secret: absent, or as created with the given owner reference.
NoSecret == [exists |-> FALSE, owner |-> NoOwner, finalizer |-> FALSE]
NewSecret(owner) == [exists |-> TRUE, owner |-> owner, finalizer |-> FALSE]

IdleClusterPass ==
    [ pc           |-> "idle",
      local        |-> NewVSphereCluster(NoOwner, "none", NoAnnotation),
      entry        |-> NewVSphereCluster(NoOwner, "none", NoAnnotation),
      cluster      |-> NoCluster,
      path         |-> "none",
      creds        |-> "none",
      present      |-> 0,
      listed       |-> -1,
      zones        |-> {},
      secret       |-> NoSecret,
      trigger      |-> "none",
      err          |-> "",
      requeueAfter |-> 0,
      patched      |-> "none" ]

NoPoller == [pc |-> "none", cluster |-> NoCluster, vsphereCluster |-> 0]

MutexUnlocked == <<"unlocked", 0>>

\* The one call of a pass that fails, if any: every failure returns at once.
\* An Update or a Delete of the Secret also fails with a not-found error, when
\* the Secret went away after the Get of the pass.
Faults ==
    {"none", "get", "owner", "list", "secretGet", "secretUpdate",
     "secretDelete", "secretUpdateNotFound", "secretDeleteNotFound",
     "credentials", "session"}

\* The errors apierrors.IsNotFound is true of.
NotFoundErrors == {"secret update: not found", "secret delete: not found"}

\* The Secret after it went away.
SecretGone(sec) == [sec EXCEPT !.finalizer = FALSE, !.exists = FALSE]

\* ---- reconcileDeploymentZones ----

RECURSIVE SplitFrom(_, _)
SplitFrom(chars, current) ==
    IF chars = <<>> THEN <<current>>
    ELSE IF Head(chars) = ":"
    THEN <<current>> \o SplitFrom(Tail(chars), <<>>)
    ELSE SplitFrom(Tail(chars), Append(current, Head(chars)))

\* strings.Split(s, ":")
Split(chars) == SplitFrom(chars, <<>>)

contains(list, search) == \E i \in DOMAIN list : list[i] = search

shouldIncludeAdoptedZone(zone, cluster) ==
    /\ cluster.adopt.exists
    /\ contains(Split(cluster.adopt.value), zone.name)

shouldIncludeZone(zone, cluster) ==
    IF ~cluster.adopt.exists THEN FALSE
    ELSE /\ zone.server = cluster.server
         /\ contains(Split(cluster.adopt.value), zone.name)

\* The branches of the loop that put the zone in the map: Status.Ready is nil,
\* or it is true.
InFailureDomainsWhateverReady(zone) == TRUE
InFailureDomains(zone) == zone.ready = "nil" \/ zone.ready = "true"

\* readyNotReported: the included zones whose Status.Ready is nil.
ReadyNotReportedIgnored(included) == 0
ReadyNotReported(included) ==
    Cardinality({z \in included : z.ready = "nil"})

reconcileDeploymentZones(vc, zoneList, listErr) ==
    IF listErr
    THEN [vc |-> vc, ok |-> FALSE, err |-> "unable to list deployment zones"]
    ELSE
    LET included == {z \in zoneList : shouldIncludeZone(z, vc)}
        readyNotReported == ReadyNotReported(included)
        notReady == Cardinality({z \in included : z.ready = "false"})
        failureDomains ==
            { [name |-> z.name, controlPlane |-> z.controlPlane] :
                z \in {y \in included : InFailureDomains(y)} }
        withDomains == [vc EXCEPT !.failureDomains = failureDomains]
    IN  IF readyNotReported > 0
        THEN [vc |-> [withDomains EXCEPT
                         !.fdAvailable = WaitingForFailureDomainStatusReason],
              ok |-> FALSE, err |-> ""]
        ELSE IF Cardinality(failureDomains) > 0
        THEN [vc |-> [withDomains EXCEPT !.fdAvailable =
                         IF notReady > 0 THEN FailureDomainsSkippedReason
                         ELSE CondTrue],
              ok |-> TRUE, err |-> ""]
        ELSE [vc |-> withDomains, ok |-> TRUE, err |-> ""]

\* ---- reconcileIdentitySecret ----

IsSecretIdentity(vc) == vc.identityRef = "secret"

\* The Secret is not owned by the VSphereCluster and has an owner reference.
NeverOwnedByAnother(sec, c) == FALSE
OwnedByAnother(sec, c) == sec.owner # c /\ sec.owner # NoOwner

reconcileIdentitySecret(c, vc, sec, fault) ==
    IF ~IsSecretIdentity(vc) THEN [secret |-> sec, err |-> ""]
    ELSE IF fault = "secretGet" \/ ~sec.exists
    THEN [secret |-> sec, err |-> "secret get"]
    ELSE IF OwnedByAnother(sec, c)
    THEN [secret |-> sec, err |-> "another cluster has set the OwnerRef"]
    ELSE IF fault = "secretUpdate"
    THEN [secret |-> sec, err |-> "secret update"]
    ELSE IF fault = "secretUpdateNotFound"
    THEN [secret |-> SecretGone(sec), err |-> "secret update: not found"]
    ELSE [secret |-> [sec EXCEPT !.owner = c, !.finalizer = TRUE], err |-> ""]

\* ---- reconcileVCenterConnectivity ----

reconcileVCenterConnectivity(vc, fault) ==
    IF vc.identityRef # "none"
    THEN IF fault = "credentials"
         THEN [creds |-> "none", err |-> "credentials"]
         ELSE [creds |-> "identity",
               err |-> IF fault = "session" THEN "session" ELSE ""]
    ELSE [creds |-> "manager",
          err |-> IF fault = "session" THEN "session" ELSE ""]

\* ---- clusterReconciler.reconcileDelete ----

\* if len(vsphereMachines) > 0
MachinesNeverRemain(count) == FALSE
MachinesAlwaysRemain(count) == TRUE
MachinesRemain(count) == count > 0

clusterReconcileDelete(vc, count, sec, fault) ==
    LET marked == [vc EXCEPT !.ccm = DeletingReason, !.csi = DeletingReason]
        released == [marked EXCEPT !.finalizer = FALSE]
    IN
    IF fault = "list"
    THEN [vc |-> marked, secret |-> sec, listed |-> -1, requeueAfter |-> 0,
          err |-> "unable to list VSphereMachines"]
    ELSE IF MachinesRemain(count)
    THEN [vc |-> marked, secret |-> sec, listed |-> count,
          requeueAfter |-> TenSeconds, err |-> ""]
    ELSE IF ~IsSecretIdentity(marked)
    THEN [vc |-> released, secret |-> sec, listed |-> count,
          requeueAfter |-> 0, err |-> ""]
    ELSE IF fault = "secretGet"
    THEN [vc |-> marked, secret |-> sec, listed |-> count,
          requeueAfter |-> 0, err |-> "secret get"]
    ELSE IF ~sec.exists
    THEN [vc |-> released, secret |-> sec, listed |-> count,
          requeueAfter |-> 0, err |-> ""]
    ELSE IF fault = "secretUpdate"
    THEN [vc |-> marked, secret |-> sec, listed |-> count,
          requeueAfter |-> 0, err |-> "secret update"]
    ELSE IF fault = "secretUpdateNotFound"
    THEN [vc |-> marked, secret |-> SecretGone(sec), listed |-> count,
          requeueAfter |-> 0, err |-> "secret update: not found"]
    ELSE IF fault = "secretDelete"
    THEN [vc |-> marked, secret |-> [sec EXCEPT !.finalizer = FALSE],
          listed |-> count, requeueAfter |-> 0, err |-> "secret delete"]
    ELSE IF fault = "secretDeleteNotFound"
    THEN [vc |-> marked, secret |-> SecretGone(sec), listed |-> count,
          requeueAfter |-> 0, err |-> "secret delete: not found"]
    ELSE [vc |-> released,
          secret |-> [sec EXCEPT !.finalizer = FALSE, !.exists = FALSE],
          listed |-> count, requeueAfter |-> 0, err |-> ""]

\* ---- clusterReconciler.reconcileNormal ----

\* conditions.MarkFalse(VCenterAvailableCondition, VCenterUnreachableReason)
\* when reconcileVCenterConnectivity returns an error.
MarkVCenterAvailable(vc) == [vc EXCEPT !.vcenter = CondTrue, !.ready = TRUE]
MarkVCenterUnreachable(vc) == [vc EXCEPT !.vcenter = VCenterUnreachableReason]

\* reconcileNormal up to the call of
\* reconcileVSphereClusterWhenAPIServerIsOnline; `proceed` tells whether the
\* pass reaches that call.
clusterReconcileNormal(c, vc, zoneList, sec, fault) ==
    LET withFinalizer == [vc EXCEPT !.finalizer = TRUE]
        z == reconcileDeploymentZones(withFinalizer, zoneList, fault = "list")
    IN
    IF z.err # ""
    THEN [vc |-> z.vc, secret |-> sec, creds |-> "none", proceed |-> FALSE,
          requeueAfter |-> 0, err |-> z.err]
    ELSE IF ~z.ok
    THEN [vc |-> z.vc, secret |-> sec, creds |-> "none", proceed |-> FALSE,
          requeueAfter |-> TenSeconds, err |-> ""]
    ELSE
    LET id == reconcileIdentitySecret(c, z.vc, sec, fault) IN
    IF id.err # ""
    THEN [vc |-> [z.vc EXCEPT !.vcenter = VCenterUnreachableReason],
          secret |-> id.secret, creds |-> "none", proceed |-> FALSE,
          requeueAfter |-> 0, err |-> id.err]
    ELSE
    LET conn == reconcileVCenterConnectivity(z.vc, fault) IN
    IF conn.err # ""
    THEN [vc |-> MarkVCenterUnreachable(z.vc),
          secret |-> id.secret, creds |-> conn.creds, proceed |-> FALSE,
          requeueAfter |-> 0, err |-> conn.err]
    ELSE [vc |-> [z.vc EXCEPT !.vcenter = CondTrue, !.ready = TRUE],
          secret |-> id.secret, creds |-> conn.creds, proceed |-> TRUE,
          requeueAfter |-> 0, err |-> ""]

\* The workload API server answers the listing call of nodes.
isAPIServerAssumedOnline(cluster, answers) == TRUE
isAPIServerOnline(cluster, answers) == apiOnline[cluster.uid] /\ answers

\* reconcileNormal after the call of
\* reconcileVSphereClusterWhenAPIServerIsOnline.
clusterReconcileNormalRest(vc, cluster, answers) ==
    IF ~vc.endpoint THEN vc
    ELSE IF cluster.deleting
    THEN [vc EXCEPT !.ccm = DeletingReason, !.csi = DeletingReason]
    ELSE IF ~isAPIServerOnline(cluster, answers) THEN vc
    ELSE [vc EXCEPT !.csi = CondTrue]

\* ---- clusterReconciler.Reconcile ----

\* A return of Reconcile that precedes the registration of the deferred
\* patch.
ClusterReturnEarly(c, path, err) ==
    /\ clPass' = [clPass EXCEPT ![c] =
                     [IdleClusterPass EXCEPT !.path = path, !.err = err]]
    /\ UNCHANGED secret

\* Reconcile up to the call of reconcileVSphereClusterWhenAPIServerIsOnline
\* and the test of the control-plane-initialized condition in it, or up to
\* its return statement when the pass does not get there.
ClusterReconcile(c, fault) ==
    /\ UNCHANGED <<sessVars, vmVars, evVars, idVars>>
    /\ c \in clActive
    /\ fault \in (IF clFaults THEN Faults ELSE {"none"})
    /\ clPass[c].pc = "idle"
    /\ clEvents' = [clEvents EXCEPT ![c] = FALSE]
    /\ UNCHANGED <<clActive, clFaults, clStore, capi, machines, zones,
                   apiOnline, apiServerTriggers, apiServerTriggersMu, pollers>>
    /\ LET vc == clStore[c] IN
       IF ~vc.exists THEN ClusterReturnEarly(c, "notFound", "")
       ELSE IF fault = "get" THEN ClusterReturnEarly(c, "getErr", "get")
       ELSE IF fault = "owner" THEN ClusterReturnEarly(c, "ownerErr", "owner")
       ELSE IF vc.owner = NoOwner THEN ClusterReturnEarly(c, "noOwner", "")
       ELSE IF ~capi[vc.owner].exists
       THEN ClusterReturnEarly(c, "ownerErr", "owner")
       ELSE IF capi[vc.owner].paused THEN ClusterReturnEarly(c, "paused", "")
       ELSE
       LET cluster == [uid |-> vc.owner, cpInit |-> capi[vc.owner].cpInit,
                       deleting |-> capi[vc.owner].deleting]
           pass == [IdleClusterPass EXCEPT
                       !.entry = vc, !.cluster = cluster,
                       !.present = machines[c],
                       !.secret = IF IsSecretIdentity(vc) THEN secret
                                  ELSE NoSecret]
       IN
       IF vc.deleting
       THEN LET out == clusterReconcileDelete(vc, machines[c], secret, fault)
            IN  /\ secret' = out.secret
                /\ clPass' = [clPass EXCEPT ![c] =
                       [pass EXCEPT !.pc = "patch", !.local = out.vc,
                                    !.path = "delete", !.listed = out.listed,
                                    !.err = out.err,
                                    !.requeueAfter = out.requeueAfter]]
       ELSE LET out == clusterReconcileNormal(c, vc, zones, secret, fault)
            IN  /\ secret' = out.secret
                /\ clPass' = [clPass EXCEPT ![c] =
                       [pass EXCEPT
                           !.pc = IF ~out.proceed THEN "patch"
                                  ELSE IF cluster.cpInit THEN "rest"
                                  ELSE "lock",
                           !.trigger = IF out.proceed /\ cluster.cpInit
                                       THEN "controlPlaneInitialized"
                                       ELSE "none",
                           !.local = out.vc, !.path = "normal",
                           !.zones = IF fault = "list" THEN {} ELSE zones,
                           !.creds = out.creds, !.err = out.err,
                           !.requeueAfter = out.requeueAfter]]

\* ---- reconcileVSphereClusterWhenAPIServerIsOnline ----

\* apiServerTriggersMu.Lock() returns when nobody holds the mutex.
MutexAlwaysFree(mu) == TRUE
MutexFree(mu) == mu = MutexUnlocked

TriggerLock(c) ==
    /\ UNCHANGED <<sessVars, vmVars, evVars, idVars>>
    /\ clPass[c].pc = "lock"
    /\ MutexFree(apiServerTriggersMu)
    /\ apiServerTriggersMu' = <<"pass", c>>
    /\ clPass' = [clPass EXCEPT ![c].pc = "check"]
    /\ UNCHANGED <<clActive, clFaults, clStore, capi, machines, zones, secret,
                   apiOnline, apiServerTriggers, pollers, clEvents>>

\* if _, ok := apiServerTriggers[ctx.Cluster.UID]; ok { return }
TriggerCheck(c) ==
    /\ UNCHANGED <<sessVars, vmVars, evVars, idVars>>
    /\ clPass[c].pc = "check"
    /\ clPass' = [clPass EXCEPT ![c] =
           IF clPass[c].cluster.uid \in apiServerTriggers
           THEN [@ EXCEPT !.pc = "unlock", !.trigger = "alreadyPolling"]
           ELSE [@ EXCEPT !.pc = "insert"]]
    /\ UNCHANGED <<clActive, clFaults, clStore, capi, machines, zones, secret,
                   apiOnline, apiServerTriggers, apiServerTriggersMu, pollers,
                   clEvents>>

\* apiServerTriggers[ctx.Cluster.UID] = struct{}{}; go func() {...}()
TriggerInsert(c) ==
    /\ UNCHANGED <<sessVars, vmVars, evVars, idVars>>
    /\ clPass[c].pc = "insert"
    /\ \E p \in PollerIds :
          /\ pollers[p].pc = "none"
          /\ \A q \in PollerIds : pollers[q].pc = "none" => p <= q
          /\ pollers' = [pollers EXCEPT ![p] =
                 [pc |-> "apiPoll", cluster |-> clPass[c].cluster,
                  vsphereCluster |-> c]]
    /\ apiServerTriggers' = apiServerTriggers \cup {clPass[c].cluster.uid}
    /\ clPass' = [clPass EXCEPT ![c].pc = "unlock", ![c].trigger = "spawned"]
    /\ UNCHANGED <<clActive, clFaults, clStore, capi, machines, zones, secret,
                   apiOnline, apiServerTriggersMu, clEvents>>

\* defer apiServerTriggersMu.Unlock()
TriggerUnlock(c) ==
    /\ UNCHANGED <<sessVars, vmVars, evVars, idVars>>
    /\ clPass[c].pc = "unlock"
    /\ apiServerTriggersMu' = MutexUnlocked
    /\ clPass' = [clPass EXCEPT ![c].pc = "rest"]
    /\ UNCHANGED <<clActive, clFaults, clStore, capi, machines, zones, secret,
                   apiOnline, apiServerTriggers, pollers, clEvents>>

\* The rest of reconcileNormal, up to the return statement.
ClusterRest(c, answers) ==
    /\ UNCHANGED <<sessVars, vmVars, evVars, idVars>>
    /\ clPass[c].pc = "rest"
    /\ clPass' = [clPass EXCEPT
           ![c].pc = "patch",
           ![c].local = clusterReconcileNormalRest(@, clPass[c].cluster,
                                                   answers)]
    /\ UNCHANGED <<clActive, clFaults, clStore, capi, machines, zones, secret,
                   apiOnline, apiServerTriggers, apiServerTriggersMu, pollers,
                   clEvents>>

\* The resource after a patch of the differences between `entry` and `local`.
ClusterPatched(store, entry, local) ==
    LET merged == [f \in DOMAIN store |->
                      IF f \in ClusterPatchFields /\ local[f] # entry[f]
                      THEN local[f] ELSE store[f]]
    IN  IF merged.deleting /\ ~merged.finalizer
        THEN [merged EXCEPT !.exists = FALSE]
        ELSE merged

\* What is on record of a pass that has returned: its path, its result and
\* the outcome of its patch.
Returned(pass, patched) ==
    [IdleClusterPass EXCEPT
        !.path = pass.path,
        !.requeueAfter = pass.requeueAfter,
        !.patched = patched,
        !.err = ReportedError(pass.err, patched = "failed")]

\* The deferred patch of Reconcile.  A patch error becomes the error of the
\* pass only when the pass has none.
ClusterPatch(c, ok) ==
    /\ UNCHANGED <<sessVars, vmVars, evVars, idVars>>
    /\ clPass[c].pc = "patch"
    /\ clFaults \/ ok
    /\ IF ok /\ clStore[c].exists
       THEN /\ clStore' = [clStore EXCEPT ![c] =
                   ClusterPatched(@, clPass[c].entry, clPass[c].local)]
            /\ clPass' = [clPass EXCEPT ![c] = Returned(@, "ok")]
       ELSE /\ UNCHANGED clStore
            /\ clPass' = [clPass EXCEPT ![c] = Returned(@, "failed")]
    /\ UNCHANGED <<clActive, clFaults, capi, machines, zones, secret,
                   apiOnline, apiServerTriggers, apiServerTriggersMu, pollers,
                   clEvents>>

\* ---- the poller goroutine ----

\* wait.PollImmediateInfinite(..., isAPIServerOnline): one round.
PollerAPIPoll(p, answers) ==
    /\ UNCHANGED <<sessVars, vmVars, evVars, idVars>>
    /\ pollers[p].pc = "apiPoll"
    /\ pollers' = [pollers EXCEPT ![p].pc =
           IF isAPIServerOnline(pollers[p].cluster, answers)
           THEN "event" ELSE @]
    /\ UNCHANGED <<clActive, clFaults, clStore, capi, machines, zones, secret,
                   apiOnline, apiServerTriggers, apiServerTriggersMu, clPass,
                   clEvents>>

\* eventChannel <- event.GenericEvent{Object: ctx.VSphereCluster}
PollerSendEvent(p) ==
    /\ UNCHANGED <<sessVars, vmVars, evVars, idVars>>
    /\ pollers[p].pc = "event"
    /\ clEvents' = [clEvents EXCEPT ![pollers[p].vsphereCluster] = TRUE]
    /\ pollers' = [pollers EXCEPT ![p].pc = "cpPoll"]
    /\ UNCHANGED <<clActive, clFaults, clStore, capi, machines, zones, secret,
                   apiOnline, apiServerTriggers, apiServerTriggersMu, clPass>>

\* isControlPlaneInitialized: the Cluster is fetched, and the condition is
\* read from ctx.Cluster, the Cluster the spawning pass fetched.
isControlPlaneInitialized(cluster, getErr) ==
    IF getErr THEN FALSE
    ELSE IF ~capi[cluster.uid].exists THEN TRUE
    ELSE cluster.cpInit

\* wait.PollImmediateInfinite(..., isControlPlaneInitialized): one round.
PollerCPPoll(p, getErr) ==
    /\ UNCHANGED <<sessVars, vmVars, evVars, idVars>>
    /\ pollers[p].pc = "cpPoll"
    /\ pollers' = [pollers EXCEPT ![p].pc =
           IF isControlPlaneInitialized(pollers[p].cluster, getErr)
           THEN "lock" ELSE @]
    /\ UNCHANGED <<clActive, clFaults, clStore, capi, machines, zones, secret,
                   apiOnline, apiServerTriggers, apiServerTriggersMu, clPass,
                   clEvents>>

PollerLock(p) ==
    /\ UNCHANGED <<sessVars, vmVars, evVars, idVars>>
    /\ pollers[p].pc = "lock"
    /\ MutexFree(apiServerTriggersMu)
    /\ apiServerTriggersMu' = <<"poller", p>>
    /\ pollers' = [pollers EXCEPT ![p].pc = "delete"]
    /\ UNCHANGED <<clActive, clFaults, clStore, capi, machines, zones, secret,
                   apiOnline, apiServerTriggers, clPass, clEvents>>

\* delete(apiServerTriggers, ctx.Cluster.UID); Unlock; the goroutine ends.
PollerExit(p) ==
    /\ UNCHANGED <<sessVars, vmVars, evVars, idVars>>
    /\ pollers[p].pc = "delete"
    /\ apiServerTriggers' = apiServerTriggers \ {pollers[p].cluster.uid}
    /\ apiServerTriggersMu' = MutexUnlocked
    /\ pollers' = [pollers EXCEPT ![p] = NoPoller]
    /\ UNCHANGED <<clActive, clFaults, clStore, capi, machines, zones, secret,
                   apiOnline, clPass, clEvents>>

\* ---- environment of the cluster reconciler ----

\* UIDs of the Clusters that own a VSphereCluster with a reconciler.
OwnersInUse == {clStore[c].owner : c \in clActive}

\* The Cluster controller marks the control plane initialized.
CapiInitialize(u) ==
    /\ UNCHANGED <<sessVars, vmVars, evVars, idVars>>
    /\ u \in OwnersInUse
    /\ capi[u].exists /\ ~capi[u].cpInit
    /\ capi' = [capi EXCEPT ![u].cpInit = TRUE]
    /\ UNCHANGED <<clActive, clFaults, clStore, machines, zones, secret,
                   apiOnline, apiServerTriggers, apiServerTriggersMu, pollers,
                   clPass, clEvents>>

\* The owner Cluster is deleted: first a deletion timestamp, then gone.
CapiDelete(u) ==
    /\ UNCHANGED <<sessVars, vmVars, evVars, idVars>>
    /\ u \in OwnersInUse
    /\ capi[u].exists
    /\ capi' = [capi EXCEPT ![u] =
           IF capi[u].deleting THEN [@ EXCEPT !.exists = FALSE]
           ELSE [@ EXCEPT !.deleting = TRUE]]
    /\ UNCHANGED <<clActive, clFaults, clStore, machines, zones, secret,
                   apiOnline, apiServerTriggers, apiServerTriggersMu, pollers,
                   clPass, clEvents>>

CapiPause(u) ==
    /\ UNCHANGED <<sessVars, vmVars, evVars, idVars>>
    /\ u \in OwnersInUse
    /\ capi[u].exists
    /\ capi' = [capi EXCEPT ![u].paused = ~@]
    /\ UNCHANGED <<clActive, clFaults, clStore, machines, zones, secret,
                   apiOnline, apiServerTriggers, apiServerTriggersMu, pollers,
                   clPass, clEvents>>

\* The workload API server comes up or goes down.
ApiServer(u) ==
    /\ UNCHANGED <<sessVars, vmVars, evVars, idVars>>
    /\ u \in OwnersInUse
    /\ apiOnline' = [apiOnline EXCEPT ![u] = ~@]
    /\ UNCHANGED <<clActive, clFaults, clStore, capi, machines, zones, secret,
                   apiServerTriggers, apiServerTriggersMu, pollers, clPass,
                   clEvents>>

\* Spec.ControlPlaneEndpoint is filled in.
SetEndpoint(c) ==
    /\ UNCHANGED <<sessVars, vmVars, evVars, idVars>>
    /\ c \in clActive
    /\ clStore[c].exists /\ ~clStore[c].endpoint
    /\ clStore' = [clStore EXCEPT ![c].endpoint = TRUE]
    /\ UNCHANGED <<clActive, clFaults, capi, machines, zones, secret,
                   apiOnline, apiServerTriggers, apiServerTriggersMu, pollers,
                   clPass, clEvents>>

\* The VSphereCluster is deleted through the API.
ClusterMarkDeleted(c) ==
    /\ UNCHANGED <<sessVars, vmVars, evVars, idVars>>
    /\ c \in clActive
    /\ clStore[c].exists /\ ~clStore[c].deleting
    /\ clStore' = [clStore EXCEPT ![c] =
           IF @.finalizer THEN [@ EXCEPT !.deleting = TRUE]
           ELSE [@ EXCEPT !.exists = FALSE]]
    /\ UNCHANGED <<clActive, clFaults, capi, machines, zones, secret,
                   apiOnline, apiServerTriggers, apiServerTriggersMu, pollers,
                   clPass, clEvents>>

\* A VSphereMachine of the cluster is created, or goes away.
MachineCreated(c) ==
    /\ UNCHANGED <<sessVars, vmVars, evVars, idVars>>
    /\ c \in clActive
    /\ clStore[c].exists /\ ~clStore[c].deleting
    /\ machines[c] < MaxMachines
    /\ machines' = [machines EXCEPT ![c] = @ + 1]
    /\ UNCHANGED <<clActive, clFaults, clStore, capi, zones, secret,
                   apiOnline, apiServerTriggers, apiServerTriggersMu, pollers,
                   clPass, clEvents>>

MachineDeleted(c) ==
    /\ UNCHANGED <<sessVars, vmVars, evVars, idVars>>
    /\ c \in clActive
    /\ machines[c] > 0
    /\ machines' = [machines EXCEPT ![c] = @ - 1]
    /\ UNCHANGED <<clActive, clFaults, clStore, capi, zones, secret,
                   apiOnline, apiServerTriggers, apiServerTriggersMu, pollers,
                   clPass, clEvents>>

\* The deployment zone controller reports the readiness of a zone.
ZoneReport(name, ready) ==
    /\ UNCHANGED <<sessVars, vmVars, evVars, idVars>>
    /\ \E z \in zones :
          /\ z.name = name
          /\ z.ready # ready
          /\ zones' = (zones \ {z}) \cup {[z EXCEPT !.ready = ready]}
    /\ UNCHANGED <<clActive, clFaults, clStore, capi, machines, secret,
                   apiOnline, apiServerTriggers, apiServerTriggersMu, pollers,
                   clPass, clEvents>>

\* The zone-adoption annotation of the VSphereCluster is written or removed.
ClusterAnnotate(c, adopt) ==
    /\ UNCHANGED <<sessVars, vmVars, evVars, idVars>>
    /\ c \in clActive
    /\ clStore[c].exists /\ clStore[c].adopt # adopt
    /\ clStore' = [clStore EXCEPT ![c].adopt = adopt]
    /\ UNCHANGED <<clActive, clFaults, capi, machines, zones, secret,
                   apiOnline, apiServerTriggers, apiServerTriggersMu, pollers,
                   clPass, clEvents>>

\* ---- reconcileIdentitySecret, call by call ----

\* The call of reconcileIdentitySecret by the Normal pass of one cluster:
\* `obj` is the Secret as the Get returned it and as the call changed it,
\* `result` is how the last call ended ("none": no call has ended yet).
IdleIdentityPass ==
    [pc |-> "idle",
     obj |-> [owner |-> NoOwner, finalizer |-> FALSE, rv |-> 0],
     result |-> "none"]

\* The store rejects an Update made on a stale resource version.
NeverStale(obj) == FALSE
StaleVersion(obj) == obj.rv # secretRV

\* ctx.Client.Get of the Secret, the test of its owner references and the
\* changes of the fetched object: the owner reference, when it has none, and
\* the finalizer.
IdentityGet(c, fault) ==
    /\ UNCHANGED <<sessVars, vmVars, evVars>>
    /\ c \in clActive
    /\ IsSecretIdentity(clStore[c])
    /\ idPass[c].pc = "idle"
    /\ fault \in {"none", "secretGet"}
    /\ idPass' = [idPass EXCEPT ![c] =
           IF fault = "secretGet" \/ ~secret.exists
           THEN [IdleIdentityPass EXCEPT !.result = "secret get"]
           ELSE IF OwnedByAnother(secret, c)
           THEN [IdleIdentityPass EXCEPT
                    !.result = "another cluster has set the OwnerRef"]
           ELSE [pc |-> "update",
                 obj |-> [owner |-> c, finalizer |-> TRUE, rv |-> secretRV],
                 result |-> "none"]]
    /\ UNCHANGED <<clVars, secretRV>>

\* r.Client.Update of the Secret: an error, a conflict when the Secret was
\* written since the Get, or the write of the fetched object.
IdentityUpdate(c, fault) ==
    /\ UNCHANGED <<sessVars, vmVars, evVars>>
    /\ idPass[c].pc = "update"
    /\ fault \in {"none", "secretUpdate"}
    /\ LET obj == idPass[c].obj
           written == [secret EXCEPT !.owner = obj.owner,
                                     !.finalizer = obj.finalizer]
       IN  IF fault = "secretUpdate"
           THEN /\ idPass' = [idPass EXCEPT ![c] =
                       [IdleIdentityPass EXCEPT !.result = "secret update"]]
                /\ UNCHANGED <<secret, secretRV>>
           ELSE IF StaleVersion(obj)
           THEN /\ idPass' = [idPass EXCEPT ![c] =
                       [IdleIdentityPass EXCEPT !.result = "conflict"]]
                /\ UNCHANGED <<secret, secretRV>>
           ELSE /\ idPass' = [idPass EXCEPT ![c] =
                       [IdleIdentityPass EXCEPT !.result = "ok"]]
                /\ secret' = written
                /\ secretRV' = IF written = secret THEN secretRV
                               ELSE secretRV + 1
    /\ UNCHANGED <<clActive, clFaults, clStore, capi, machines, zones,
                   apiOnline, apiServerTriggers, apiServerTriggersMu, pollers,
                   clPass, clEvents>>

\* Another writer updates the Secret (its data), which gives it a new
\* resource version.
SecretTouched ==
    /\ UNCHANGED <<sessVars, vmVars, clVars, evVars>>
    /\ secret.exists
    /\ secretRV < MaxVersion
    /\ secretRV' = secretRV + 1
    /\ UNCHANGED idPass

\* No call of reconcileIdentitySecret yet.
InitIdentityQuiet ==
    /\ idPass = [c \in VSphereClusters |-> IdleIdentityPass]
    /\ secretRV = 1

\* The calls of reconcileIdentitySecret of the clusters, step by step, while
\* the Secret is written by others.
NextIdentity ==
    \/ \E c \in VSphereClusters, fault \in Faults : IdentityGet(c, fault)
    \/ \E c \in VSphereClusters, fault \in Faults : IdentityUpdate(c, fault)
    \/ SecretTouched

\* ---- controlPlaneMachineToCluster ----

\* The objects that the watch of the VSphereMachines hands to the mapping
\* function: a VSphereMachine of the control plane or of the workers, with
\* the addresses of its status, or an object of another kind.
MachineAddresses == {<<>>, <<"10.0.0.1">>, <<"10.0.0.1", "10.0.0.2">>}
MachineObjects ==
    [kind : {"VSphereMachine", "other"}, controlPlane : BOOLEAN,
     addresses : MachineAddresses]

\* What GetMachinePreferredIPAddress returns for a machine: an address, the
\* error ErrNoMachineIPAddr, or another error.  Without addresses it is
\* ErrNoMachineIPAddr.
PreferredIPResults(machine) ==
    IF Len(machine.addresses) = 0 THEN {"noMachineIPAddr"}
    ELSE {"resolved", "noMachineIPAddr", "error"}

\* The lookups of the mapping function that may fail.
LookupFaults == {"none", "cluster", "vsphereCluster"}

\* No call of the mapping function yet.
NoMachineEvent ==
    [object |-> [kind |-> "none", controlPlane |-> FALSE, addresses |-> <<>>],
     preferred |-> "none", fault |-> "none",
     cluster |-> [exists |-> FALSE, cpInit |-> FALSE, endpoint |-> FALSE],
     vsphereCluster |-> [id |-> 0, exists |-> FALSE, endpoint |-> FALSE],
     requests |-> {}]

\* infrautilv1.IsControlPlaneMachine(vsphereMachine)
IsAnyMachine(machine) == TRUE
IsControlPlaneMachine(machine) == machine.controlPlane

\* controlPlaneMachineToCluster: the reconcile requests for the object o,
\* when GetMachinePreferredIPAddress returns `preferred`, the Cluster of the
\* machine is `cluster` and its VSphereCluster is `vsphereCluster` (each with
\* exists FALSE when the lookup fails).
controlPlaneMachineToCluster(o, preferred, cluster, vsphereCluster) ==
    IF o.kind # "VSphereMachine" THEN {}
    ELSE IF ~IsControlPlaneMachine(o) THEN {}
    ELSE IF Len(o.addresses) = 0 THEN {}
    ELSE IF preferred # "resolved" THEN {}
    ELSE IF ~cluster.exists THEN {}
    ELSE IF cluster.cpInit THEN {}
    ELSE IF cluster.endpoint THEN {}
    ELSE IF ~vsphereCluster.exists THEN {}
    ELSE IF vsphereCluster.endpoint THEN {}
    ELSE {vsphereCluster.id}

\* An event of a VSphereMachine of the VSphereCluster c goes through the
\* mapping function; a request makes a pass of c due.
MachineEvent(c, o, preferred, fault) ==
    /\ UNCHANGED <<sessVars, vmVars, idVars>>
    /\ c \in clActive
    /\ o \in MachineObjects
    /\ preferred \in PreferredIPResults(o)
    /\ fault \in LookupFaults
    /\ LET u == clStore[c].owner
           cluster ==
               [exists |-> fault # "cluster" /\ u \in UIDs /\ capi[u].exists,
                cpInit |-> u \in UIDs /\ capi[u].cpInit,
                endpoint |-> u \in UIDs /\ capi[u].endpoint]
           vsphereCluster ==
               [id |-> c,
                exists |-> fault # "vsphereCluster" /\ clStore[c].exists,
                endpoint |-> clStore[c].endpoint]
           requests == controlPlaneMachineToCluster(o, preferred, cluster,
                                                    vsphereCluster)
       IN  /\ machineEvent' =
                  [object |-> o, preferred |-> preferred, fault |-> fault,
                   cluster |-> cluster, vsphereCluster |-> vsphereCluster,
                   requests |-> requests]
           /\ clEvents' = [d \in VSphereClusters |->
                              clEvents[d] \/ d \in requests]
    /\ UNCHANGED <<clActive, clFaults, clStore, capi, machines, zones, secret,
                   apiOnline, apiServerTriggers, apiServerTriggersMu, pollers,
                   clPass>>

\* The Cluster controller copies the control-plane endpoint of the
\* VSphereCluster to the Cluster.
CapiSetEndpoint(u) ==
    /\ UNCHANGED <<sessVars, vmVars, evVars, idVars>>
    /\ u \in OwnersInUse
    /\ capi[u].exists /\ ~capi[u].endpoint
    /\ \E c \in clActive :
          clStore[c].owner = u /\ clStore[c].exists /\ clStore[c].endpoint
    /\ capi' = [capi EXCEPT ![u].endpoint = TRUE]
    /\ UNCHANGED <<clActive, clFaults, clStore, machines, zones, secret,
                   apiOnline, apiServerTriggers, apiServerTriggersMu, pollers,
                   clPass, clEvents>>

\* The watch of the VSphereMachines at rest.
InitEventQuiet == machineEvent = NoMachineEvent

\* The events of the VSphereMachines of a cluster, while its control plane
\* is initialized, its endpoint is filled in and the cluster goes away.
NextMapping ==
    \/ \E c \in VSphereClusters, o \in MachineObjects,
          preferred \in {"resolved", "noMachineIPAddr", "error"},
          fault \in LookupFaults : MachineEvent(c, o, preferred, fault)
    \/ \E u \in UIDs : CapiInitialize(u)
    \/ \E u \in UIDs : CapiSetEndpoint(u)
    \/ \E u \in UIDs : CapiDelete(u)
    \/ \E c \in VSphereClusters : SetEndpoint(c)
    \/ \E c \in VSphereClusters : ClusterMarkDeleted(c)

\* The steps of the passes.
NextPass ==
    \/ \E c \in VSphereClusters, fault \in Faults : ClusterReconcile(c, fault)
    \/ \E c \in VSphereClusters : TriggerLock(c)
    \/ \E c \in VSphereClusters : TriggerCheck(c)
    \/ \E c \in VSphereClusters : TriggerInsert(c)
    \/ \E c \in VSphereClusters : TriggerUnlock(c)
    \/ \E c \in VSphereClusters, answers \in BOOLEAN : ClusterRest(c, answers)
    \/ \E c \in VSphereClusters, ok \in BOOLEAN : ClusterPatch(c, ok)

\* The steps of the poller goroutines.
NextGoroutine ==
    \/ \E p \in PollerIds, answers \in BOOLEAN : PollerAPIPoll(p, answers)
    \/ \E p \in PollerIds : PollerSendEvent(p)
    \/ \E p \in PollerIds, getErr \in BOOLEAN : PollerCPPoll(p, getErr)
    \/ \E p \in PollerIds : PollerLock(p)
    \/ \E p \in PollerIds : PollerExit(p)

\* The passes, the pollers, and the environment the pollers wait for.
NextPoller ==
    \/ NextPass
    \/ NextGoroutine
    \/ \E u \in UIDs : CapiInitialize(u)
    \/ \E u \in UIDs : CapiDelete(u)
    \/ \E u \in UIDs : ApiServer(u)

\* One cluster's passes and pollers, and the environment of a Normal pass.
NextCluster ==
    \/ NextPoller
    \/ \E c \in VSphereClusters : SetEndpoint(c)
    \/ \E u \in UIDs : CapiPause(u)

\* The passes, and the environment a deletion waits for.  The pollers that
\* the passes spawn are not scheduled.
NextClusterDelete ==
    \/ NextPass
    \/ \E c \in VSphereClusters : ClusterMarkDeleted(c)
    \/ \E c \in VSphereClusters : MachineCreated(c)
    \/ \E c \in VSphereClusters : MachineDeleted(c)

\* The values of the zone-adoption annotation that are written.
Adoptions ==
    {NoAnnotation, Annotation(<<"a", ":", "b">>), Annotation(<<"a", ":", "c">>)}

\* The passes of a cluster whose control plane is initialized, and the
\* environment of the failure-domain aggregation.
NextZones ==
    \/ \E c \in VSphereClusters, fault \in Faults : ClusterReconcile(c, fault)
    \/ \E c \in VSphereClusters, answers \in BOOLEAN : ClusterRest(c, answers)
    \/ \E c \in VSphereClusters, ok \in BOOLEAN : ClusterPatch(c, ok)
    \/ \E name \in {<<"a">>, <<"b">>, <<"c">>}, ready \in {"true", "false"} :
          ZoneReport(name, ready)
    \/ \E c \in VSphereClusters, adopt \in Adoptions : ClusterAnnotate(c, adopt)

\* The passes of clusters whose control plane is initialized.
NextSecret ==
    \/ \E c \in VSphereClusters, fault \in Faults : ClusterReconcile(c, fault)
    \/ \E c \in VSphereClusters, answers \in BOOLEAN : ClusterRest(c, answers)
    \/ \E c \in VSphereClusters, ok \in BOOLEAN : ClusterPatch(c, ok)

\* The passes of a cluster, the spawning of its poller included, while its
\* deployment zones report their readiness.
NextDefer ==
    \/ NextPass
    \/ \E name \in {<<"a">>, <<"b">>, <<"c">>}, ready \in {"true", "false"} :
          ZoneReport(name, ready)

\* The passes of both reconcilers, each with its deferred patch, in a fixed
\* environment.
NextPatch ==
    \/ \E i \in VMInputs :
            VMReconcile(i.getErr, i.lookups, i.owner, i.paused, i.svcErr)
    \/ \E ok \in BOOLEAN : VMPatch(ok)
    \/ \E getErr \in BOOLEAN : VMPoll(getErr)
    \/ VMPollSleep
    \/ \E c \in VSphereClusters, fault \in Faults : ClusterReconcile(c, fault)
    \/ \E c \in VSphereClusters, answers \in BOOLEAN : ClusterRest(c, answers)
    \/ \E c \in VSphereClusters, ok \in BOOLEAN : ClusterPatch(c, ok)

\* The passes of a cluster whose control plane is initialized, while its
\* endpoint is filled in, its owner Cluster is deleted and the workload API
\* server comes and goes.
NextServices ==
    \/ \E c \in VSphereClusters, fault \in Faults : ClusterReconcile(c, fault)
    \/ \E c \in VSphereClusters, answers \in BOOLEAN : ClusterRest(c, answers)
    \/ \E c \in VSphereClusters, ok \in BOOLEAN : ClusterPatch(c, ok)
    \/ \E c \in VSphereClusters : SetEndpoint(c)
    \/ \E u \in UIDs : CapiDelete(u)
    \/ \E u \in UIDs : ApiServer(u)

\* ---- initial states of the cluster reconciler ----

NewCluster == [exists |-> TRUE, deleting |-> FALSE, paused |-> FALSE,
               cpInit |-> FALSE, endpoint |-> FALSE]

\* What does not depend on the scenario.
InitClusterCommon ==
    /\ capi = [u \in UIDs |-> NewCluster]
    /\ apiOnline = [u \in UIDs |-> FALSE]
    /\ apiServerTriggers = {}
    /\ apiServerTriggersMu = MutexUnlocked
    /\ pollers = [p \in PollerIds |-> NoPoller]
    /\ clPass = [c \in VSphereClusters |-> IdleClusterPass]
    /\ clEvents = [c \in VSphereClusters |-> FALSE]

\* The cluster reconciler at rest, for the specifications of the other parts.
InitClusterQuiet ==
    /\ clActive = {}
    /\ clFaults = FALSE
    /\ clStore = [c \in VSphereClusters |->
                     NewVSphereCluster(1, "none", NoAnnotation)]
    /\ machines = [c \in VSphereClusters |-> 0]
    /\ zones = {}
    /\ secret = NoSecret
    /\ InitClusterCommon

\* Two VSphereClusters of one Cluster, reconciled concurrently, one with a
\* control plane endpoint; no call fails.
InitPoller ==
    /\ clActive = VSphereClusters
    /\ clFaults = FALSE
    /\ clStore = [c \in VSphereClusters |->
                     [NewVSphereCluster(1, "none", NoAnnotation)
                         EXCEPT !.endpoint = (c = 1)]]
    /\ machines = [c \in VSphereClusters |-> 0]
    /\ zones = {}
    /\ secret = NoSecret
    /\ InitClusterCommon

\* One VSphereCluster; no call fails.
InitCluster ==
    /\ clActive = {1}
    /\ clFaults = FALSE
    /\ clStore = [c \in VSphereClusters |->
                     NewVSphereCluster(1, "none", NoAnnotation)]
    /\ machines = [c \in VSphereClusters |-> 0]
    /\ zones = {}
    /\ secret = NoSecret
    /\ InitClusterCommon

\* One VSphereCluster, with or without an identity secret, and its machines;
\* any call may fail.
InitClusterDelete ==
    /\ clActive = {1}
    /\ clFaults = TRUE
    /\ \E identityRef \in {"none", "secret"} :
          clStore = [c \in VSphereClusters |->
                        NewVSphereCluster(1, identityRef, NoAnnotation)]
    /\ \E n \in 0..MaxMachines : machines = [c \in VSphereClusters |->
                                                IF c = 1 THEN n ELSE 0]
    /\ zones = {}
    /\ secret \in {NoSecret, NewSecret(NoOwner)}
    /\ InitClusterCommon

\* A deployment zone that has not reported its readiness.
DeploymentZone(name, server, controlPlane) ==
    [name |-> name, server |-> server, ready |-> "nil",
     controlPlane |-> controlPlane]

\* One VSphereCluster on the server "vc", not annotated; the zones "a" and "b"
\* of that server and the zone "c" of another server; the control plane of
\* the owner Cluster is initialized; any call may fail.
InitZones ==
    /\ clActive = {1}
    /\ clFaults = TRUE
    /\ clStore = [c \in VSphereClusters |->
                     NewVSphereCluster(1, "none", NoAnnotation)]
    /\ machines = [c \in VSphereClusters |-> 0]
    /\ zones = {DeploymentZone(<<"a">>, "vc", TRUE),
                DeploymentZone(<<"b">>, "vc", FALSE),
                DeploymentZone(<<"c">>, "vc2", TRUE)}
    /\ secret = NoSecret
    /\ capi = [u \in UIDs |-> [NewCluster EXCEPT !.cpInit = TRUE]]
    /\ apiOnline = [u \in UIDs |-> FALSE]
    /\ apiServerTriggers = {}
    /\ apiServerTriggersMu = MutexUnlocked
    /\ pollers = [p \in PollerIds |-> NoPoller]
    /\ clPass = [c \in VSphereClusters |-> IdleClusterPass]
    /\ clEvents = [c \in VSphereClusters |-> FALSE]

\* One VSphereCluster on the server "vc" that adopts the zones "a" and "b" and
\* names an identity Secret nobody owns; no zone has reported its readiness;
\* the control plane of the owner Cluster is not initialized; any call may
\* fail.
InitDefer ==
    /\ clActive = {1}
    /\ clFaults = TRUE
    /\ clStore = [c \in VSphereClusters |->
                     NewVSphereCluster(1, "secret",
                                       Annotation(<<"a", ":", "b">>))]
    /\ machines = [c \in VSphereClusters |-> 0]
    /\ zones = {DeploymentZone(<<"a">>, "vc", TRUE),
                DeploymentZone(<<"b">>, "vc", FALSE),
                DeploymentZone(<<"c">>, "vc2", TRUE)}
    /\ secret = NewSecret(NoOwner)
    /\ InitClusterCommon

\* Two VSphereClusters, each of its own Cluster with an initialized control
\* plane, that name the same identity Secret, which exists without owner or
\* with the owner reference of another resource; any call may fail.
InitSecret ==
    /\ clActive = VSphereClusters
    /\ clFaults = TRUE
    /\ clStore = [c \in VSphereClusters |->
                     NewVSphereCluster(c, "secret", NoAnnotation)]
    /\ machines = [c \in VSphereClusters |-> 0]
    /\ zones = {}
    /\ secret \in {NewSecret(NoOwner), NewSecret(OtherOwner)}
    /\ capi = [u \in UIDs |-> [NewCluster EXCEPT !.cpInit = TRUE]]
    /\ apiOnline = [u \in UIDs |-> FALSE]
    /\ apiServerTriggers = {}
    /\ apiServerTriggersMu = MutexUnlocked
    /\ pollers = [p \in PollerIds |-> NoPoller]
    /\ clPass = [c \in VSphereClusters |-> IdleClusterPass]
    /\ clEvents = [c \in VSphereClusters |-> FALSE]

\* One VSphereCluster without identity secret and without deployment zones,
\* its control-plane endpoint not yet set; the control plane of the owner
\* Cluster is initialized; any call may fail.
InitServices ==
    /\ clActive = {1}
    /\ clFaults = TRUE
    /\ clStore = [c \in VSphereClusters |->
                     NewVSphereCluster(1, "none", NoAnnotation)]
    /\ machines = [c \in VSphereClusters |-> 0]
    /\ zones = {}
    /\ secret = NoSecret
    /\ capi = [u \in UIDs |-> [NewCluster EXCEPT !.cpInit = TRUE]]
    /\ apiOnline = [u \in UIDs |-> FALSE]
    /\ apiServerTriggers = {}
    /\ apiServerTriggersMu = MutexUnlocked
    /\ pollers = [p \in PollerIds |-> NoPoller]
    /\ clPass = [c \in VSphereClusters |-> IdleClusterPass]
    /\ clEvents = [c \in VSphereClusters |-> FALSE]

\* ---- specifications ----

InitSessionQuiet == active = {} /\ choices = {} /\ InitSessionVars

\* The initial states of each specification: one part as its scenario has it,
\* the other parts at rest.
StartSessionSeq == InitSessionSeq /\ InitVMQuiet /\ InitClusterQuiet /\ InitEventQuiet
        /\ InitIdentityQuiet
StartSession == InitSession /\ InitVMQuiet /\ InitClusterQuiet /\ InitEventQuiet
        /\ InitIdentityQuiet
StartSessionCredentials ==
    InitSessionCredentials /\ InitVMQuiet /\ InitClusterQuiet /\ InitEventQuiet
        /\ InitIdentityQuiet
StartVM == InitSessionQuiet /\ InitVMVars /\ InitClusterQuiet /\ InitEventQuiet
        /\ InitIdentityQuiet
StartPoller == InitSessionQuiet /\ InitVMQuiet /\ InitPoller /\ InitEventQuiet
        /\ InitIdentityQuiet
StartCluster == InitSessionQuiet /\ InitVMQuiet /\ InitCluster /\ InitEventQuiet
        /\ InitIdentityQuiet
StartClusterDelete == InitSessionQuiet /\ InitVMQuiet /\ InitClusterDelete /\ InitEventQuiet
        /\ InitIdentityQuiet
StartZones == InitSessionQuiet /\ InitVMQuiet /\ InitZones /\ InitEventQuiet
        /\ InitIdentityQuiet
StartSecret == InitSessionQuiet /\ InitVMQuiet /\ InitSecret /\ InitEventQuiet
        /\ InitIdentityQuiet
StartPatch == InitSessionQuiet /\ InitVMVars /\ InitZones /\ InitEventQuiet
        /\ InitIdentityQuiet
StartDefer == InitSessionQuiet /\ InitVMQuiet /\ InitDefer /\ InitEventQuiet
        /\ InitIdentityQuiet
StartServices == InitSessionQuiet /\ InitVMQuiet /\ InitServices /\ InitEventQuiet
        /\ InitIdentityQuiet
StartMapping == InitSessionQuiet /\ InitVMQuiet /\ InitCluster /\ InitEventQuiet
        /\ InitIdentityQuiet

SpecSessionSeq == StartSessionSeq /\ [][NextSession]_vars
SpecSession == StartSession /\ [][NextSession]_vars
SpecSessionCredentials == StartSessionCredentials /\ [][NextSession]_vars
SpecVM == StartVM /\ [][NextVM]_vars
SpecPoller == StartPoller /\ [][NextPoller]_vars
SpecCluster == StartCluster /\ [][NextCluster]_vars
SpecClusterDelete == StartClusterDelete /\ [][NextClusterDelete]_vars
SpecZones == StartZones /\ [][NextZones]_vars
SpecSecret == StartSecret /\ [][NextSecret]_vars
SpecPatch == StartPatch /\ [][NextPatch]_vars
SpecDefer == StartDefer /\ [][NextDefer]_vars
SpecServices == StartServices /\ [][NextServices]_vars
SpecMapping == StartMapping /\ [][NextMapping]_vars
SpecIdentity == StartSecret /\ [][NextIdentity]_vars

\* A goroutine that can take a step takes one: the pollers run, and a pass
\* that holds the mutex goes on to release it.
FairCluster ==
    /\ \A p \in PollerIds :
          /\ WF_vars(\E answers \in BOOLEAN : PollerAPIPoll(p, answers))
          /\ WF_vars(PollerSendEvent(p))
          /\ WF_vars(\E getErr \in BOOLEAN : PollerCPPoll(p, getErr))
          /\ SF_vars(PollerLock(p))
          /\ WF_vars(PollerExit(p))
    /\ \A c \in VSphereClusters :
          /\ WF_vars(TriggerCheck(c))
          /\ WF_vars(TriggerInsert(c))
          /\ WF_vars(TriggerUnlock(c))

SpecClusterFair == SpecCluster /\ FairCluster

\* The passes of the VM reconciler while nobody else writes the resource: the
\* platform VM changes, the store does not.
NextVMAlone ==
    \/ \E i \in VMInputs :
            VMReconcile(i.getErr, i.lookups, i.owner, i.paused, i.svcErr)
    \/ \E ok \in BOOLEAN : VMPatch(ok)
    \/ \E getErr \in BOOLEAN : VMPoll(getErr)
    \/ VMPollSleep
    \/ \E r \in VMReports : PlatformChange(r)

\* The deferred function runs on: the patch is issued, the interval of the
\* poll passes, and the Get of a round is answered again and again.
FairVM ==
    /\ WF_vars(\E ok \in BOOLEAN : VMPatch(ok))
    /\ WF_vars(VMPollSleep)
    /\ SF_vars(VMPoll(FALSE))

SpecVMAlone == StartVM /\ [][NextVMAlone]_vars /\ FairVM

(***************************************************************************)
(*                    SESSION MANAGER: PROPERTIES                          *)
(***************************************************************************)

Done(c) == call[c].pc = "done"
KeyOf(c) == SessionKey(call[c].params)

C5_Original ==
    \A c \in Callers :
        (Done(c) /\ ~call[c].params.refresh /\ call[c].cached # 0
         /\ ~call[c].hitVim /\ ~call[c].hitRest) =>
            /\ call[c].result > 0
            /\ call[c].result # call[c].cached
            /\ Cardinality(vimLive) = 1

LiveForKey(k) == {id \in vimLive : sessions[id].key = k}

\* C6 as stated: with keep-alive enabled, after the platform expired the
\* session, the next GetOrCreate for the key succeeds and returns a new,
\* different Session, and at most one session per key is ever alive at the
\* platform.
C6_Original ==
    /\ \A c \in Callers :
         (Done(c) /\ call[c].params.keepAlive /\ call[c].cached # 0
          /\ sessions[call[c].cached].keepAlive /\ ~call[c].hitVim) =>
             /\ call[c].result > 0
             /\ call[c].result # call[c].cached
    /\ \A k \in Keys : Cardinality(LiveForKey(k)) <= 1

FullyConstructed(id) ==
    /\ sessions[id].tagManager
    /\ sessions[id].datacenter # "" => sessions[id].dcSet

\* C7: every cached Session is fully constructed and cached under its own key
\* (the cache maps a key to at most one Session), and a GetOrCreate that
\* returned an error has left nothing of its own in the cache: the slot of its
\* key is empty or holds a Session another caller stored.
C7_CachedSessionsComplete ==
    /\ \A k \in Keys :
         sessionCache[k] # 0 =>
            /\ sessionCache[k] \in 1..Len(sessions)
            /\ sessions[sessionCache[k]].key = k
            /\ FullyConstructed(sessionCache[k])
    /\ \A c \in Callers :
         (Done(c) /\ call[c].result = -1) =>
            /\ sessionCache[KeyOf(c)] # call[c].built \/ call[c].built = 0
            /\ \/ sessionCache[KeyOf(c)] = 0
               \/ sessions[sessionCache[KeyOf(c)]].owner # c

\* A call failed at the datacenter resolution, with platform and tag manager
\* already logged in.
C7_Witness ==
    \E c \in Callers :
        /\ Done(c) /\ call[c].result = -1 /\ call[c].built # 0
        /\ sessions[call[c].built].tagManager
        /\ sessions[call[c].built].datacenter # ""

\* C8 as stated: when two concurrent GetOrCreate calls for one key both built
\* a Session, the cache slot holds the one stored last, and the superseded one
\* has had the logout of its tag-management and platform sessions attempted.
C8_Original ==
    \A c1, c2 \in Callers :
        (c1 # c2 /\ Done(c1) /\ Done(c2) /\ KeyOf(c1) = KeyOf(c2)
         /\ call[c1].built # 0 /\ call[c1].result = call[c1].built
         /\ call[c2].built # 0 /\ call[c2].result = call[c2].built
         /\ lastStored[KeyOf(c1)] = call[c2].built) =>
            /\ sessionCache[KeyOf(c1)] \in {0, call[c2].built}
            /\ call[c1].built \in tmLogoutTried
            /\ call[c1].built \in vimLogoutTried

\* ---- VSphereVM reconciler: properties ----

\* The pass on record went through reconcileNormal and the lifecycle service
\* reported a ready VM without a BIOS UUID.
ReadyWithoutBiosUUID(pass) ==
    /\ pass.path = "normal"
    /\ pass.report.state = "ready"
    /\ pass.report.biosUUID = ""

\* C2: Spec.BiosUUID of the stored VSphereVM, once non-empty, is never
\* replaced by an empty value; and a pass in which the lifecycle service
\* reports a ready VM with an empty BIOS UUID returns an error and leaves the
\* BIOS UUID as it was, in the object of the pass and, through the patch and
\* the poll that follow, in the store.
C2_BiosUUIDNeverEmptied ==
    [][ /\ (vmStore.biosUUID # "" => vmStore'.biosUUID # "")
        /\ (ReadyWithoutBiosUUID(vmPass') =>
               /\ vmPass'.err = "bios uuid is empty while VM is ready"
               /\ vmPass'.requeueAfter = 0
               /\ vmPass'.local.biosUUID = vmPass'.entry.biosUUID
               /\ vmStore'.biosUUID = vmPass'.entry.biosUUID) ]_vars

\* A pass of a VM that has a BIOS UUID met a ready report without one, and
\* has patched the resource and returned.
C2_Witness ==
    /\ vmPass.pc = "idle"
    /\ ReadyWithoutBiosUUID(vmPass)
    /\ vmPass.patched = "ok"
    /\ vmPass.entry.biosUUID = "abc"
    /\ vmStore.exists
    /\ vmStore.biosUUID = "abc"

\* ---- VSphereCluster reconciler: properties ----

\* Pass c went through reconcileDelete, which has returned, while the
\* cluster had VSphereMachines.
DeletingWithMachines(c) ==
    /\ clPass[c].pc = "patch"
    /\ clPass[c].path = "delete"
    /\ clPass[c].present > 0

\* C1 as stated: a Deleting pass of a cluster that still has machines keeps
\* the finalizer, returns no error and asks for a requeue after 10 seconds.
C1_Original ==
    \A c \in VSphereClusters :
        DeletingWithMachines(c) =>
            /\ clPass[c].local.finalizer
            /\ clPass[c].err = ""
            /\ clPass[c].requeueAfter = TenSeconds

\* C1: no Deleting pass of a cluster that still has VSphereMachines removes
\* the finalizer, and the stored finalizer goes away only with the patch of a
\* Deleting pass that met no machine.  When the listing of the machines
\* succeeds, reconcileDelete returns no error and asks for a requeue after 10
\* seconds; when the listing fails, it returns that error and asks for none.
C1_FinalizerKeptWhileMachinesExist ==
    [][ /\ \A c \in VSphereClusters :
              DeletingWithMachines(c)' =>
                 /\ clPass'[c].local.finalizer
                 /\ clPass'[c].entry.finalizer
                 /\ (clPass'[c].listed = clPass'[c].present =>
                        /\ clPass'[c].err = ""
                        /\ clPass'[c].requeueAfter = TenSeconds)
                 /\ (clPass'[c].listed # clPass'[c].present =>
                        /\ clPass'[c].err = "unable to list VSphereMachines"
                        /\ clPass'[c].requeueAfter = 0)
        /\ \A c \in VSphereClusters :
              (clStore[c].finalizer /\ ~clStore'[c].finalizer) =>
                 /\ clPass[c].pc = "patch"
                 /\ clPass[c].path = "delete"
                 /\ clPass[c].present = 0 ]_vars

\* A Deleting pass listed the two machines of its cluster.
C1_Witness ==
    /\ DeletingWithMachines(1)
    /\ clPass[1].listed = MaxMachines
    /\ clPass[1].requeueAfter = TenSeconds
    /\ clStore[1].deleting
    /\ clStore[1].finalizer

RunningPollers(u) ==
    {p \in PollerIds : pollers[p].pc # "none" /\ pollers[p].cluster.uid = u}

\* C9: at any instant at most one poller goroutine exists per Cluster UID,
\* and its UID is in apiServerTriggers; a pass that is between the membership
\* check of apiServerTriggers and the unlock that follows the insertion holds
\* the mutex, as does a poller that removes its UID.
C9_OnePollerPerUID ==
    /\ \A u \in UIDs : Cardinality(RunningPollers(u)) <= 1
    /\ \A u \in UIDs : RunningPollers(u) # {} => u \in apiServerTriggers
    /\ \A c \in VSphereClusters :
          clPass[c].pc \in {"check", "insert", "unlock"} =>
              apiServerTriggersMu = <<"pass", c>>
    /\ \A p \in PollerIds :
          pollers[p].pc = "delete" => apiServerTriggersMu = <<"poller", p>>

\* Two passes for one Cluster UID raced: the first has spawned the poller and
\* is in the rest of reconcileNormal, the second found the UID in
\* apiServerTriggers and is about to unlock.
C9_Witness ==
    /\ clPass[1].cluster.uid = clPass[2].cluster.uid
    /\ clPass[1].pc = "rest"
    /\ clPass[1].trigger = "spawned"
    /\ clPass[2].pc = "unlock"
    /\ clPass[2].trigger = "alreadyPolling"
    /\ Cardinality(RunningPollers(clPass[1].cluster.uid)) = 1

\* C10 as stated: a poller that has seen the API server answer and whose
\* Cluster is marked control-plane-initialized, or is gone, eventually removes
\* its UID from apiServerTriggers and exits.
C10_Original ==
    \A p \in PollerIds :
        (/\ pollers[p].pc = "cpPoll"
         /\ \/ ~capi[pollers[p].cluster.uid].exists
            \/ capi[pollers[p].cluster.uid].cpInit)
        ~> (pollers[p].pc = "none")

\* ---- failure-domain aggregation: properties ----

\* Pass c is a Normal pass whose listing of the deployment zones succeeded,
\* so that reconcileDeploymentZones went through its loop and assigned
\* Status.FailureDomains.
ReachedAggregation(c) ==
    /\ clPass[c].pc # "idle"
    /\ clPass[c].path = "normal"
    /\ clPass[c].err # "unable to list deployment zones"

\* The name is one of the colon-separated items of the annotation.
Adopted(name, adopt) ==
    /\ adopt.exists
    /\ \E i \in DOMAIN Split(adopt.value) : Split(adopt.value)[i] = name

\* The zones pass c listed that are adopted by its cluster and are of the
\* server of its cluster.
MatchedZones(c) ==
    {z \in clPass[c].zones :
        /\ z.server = clPass[c].entry.server
        /\ Adopted(z.name, clPass[c].entry.adopt)}

\* C11: after a Normal pass that reached the failure-domain aggregation,
\* every entry of the failure-domain map of the cluster names a listed
\* deployment zone whose server is the server of the cluster and whose name
\* is an item of the colon-separated zone-adoption annotation; when the
\* annotation is absent the map is empty.
C11_FailureDomainsAreAdoptedZones ==
    \A c \in VSphereClusters :
        ReachedAggregation(c) =>
            /\ \A fd \in clPass[c].local.failureDomains :
                  \E z \in clPass[c].zones :
                      /\ z.name = fd.name
                      /\ z.server = clPass[c].entry.server
                      /\ Adopted(z.name, clPass[c].entry.adopt)
            /\ (~clPass[c].entry.adopt.exists =>
                   clPass[c].local.failureDomains = {})

\* A pass filled the map while it left out a zone of the cluster's server
\* that the annotation does not name and a zone the annotation names that
\* is of another server.
C11_Witness ==
    /\ ReachedAggregation(1)
    /\ clPass[1].local.failureDomains # {}
    /\ \E z \in clPass[1].zones :
          /\ z.server = clPass[1].entry.server
          /\ ~Adopted(z.name, clPass[1].entry.adopt)
    /\ \E z \in clPass[1].zones :
          /\ z.server # clPass[1].entry.server
          /\ Adopted(z.name, clPass[1].entry.adopt)

\* The listed zone of that name, or no zone.
ListedZone(c, name) == {z \in clPass[c].zones : z.name = name}

\* C12: a cluster on the server "vc" whose annotation is "a:b", with the
\* zones a (server vc, ready true), b (server vc, ready false) and c (another
\* server, any readiness): after the Normal pass the map is exactly {a} with
\* the control-plane eligibility of a, and the aggregate condition is false
\* because a matched zone is not ready.  In every pass, a matched zone that
\* reported ready = false is not in the map.
C12_NotReadyZoneSkipped ==
    \A c \in VSphereClusters :
        ReachedAggregation(c) =>
            /\ (/\ clPass[c].entry.adopt = Annotation(<<"a", ":", "b">>)
                /\ \E z \in ListedZone(c, <<"a">>) :
                      z.server = clPass[c].entry.server /\ z.ready = "true"
                /\ \E z \in ListedZone(c, <<"b">>) :
                      z.server = clPass[c].entry.server /\ z.ready = "false"
                /\ \E z \in ListedZone(c, <<"c">>) :
                      z.server # clPass[c].entry.server)
               => /\ clPass[c].local.failureDomains =
                        {[name |-> z.name, controlPlane |-> z.controlPlane] :
                            z \in ListedZone(c, <<"a">>)}
                  /\ Cardinality(clPass[c].local.failureDomains) = 1
                  /\ clPass[c].local.fdAvailable = FailureDomainsSkippedReason
            /\ \A z \in MatchedZones(c) :
                  z.ready = "false" =>
                     \A fd \in clPass[c].local.failureDomains :
                        fd.name # z.name

\* The pass of the scenario, with zone c ready, has returned from
\* reconcileNormal and is about to patch.
C12_Witness ==
    /\ ReachedAggregation(1)
    /\ clPass[1].pc = "patch"
    /\ clPass[1].entry.adopt = Annotation(<<"a", ":", "b">>)
    /\ \E z \in ListedZone(1, <<"a">>) : z.ready = "true"
    /\ \E z \in ListedZone(1, <<"b">>) : z.ready = "false"
    /\ \E z \in ListedZone(1, <<"c">>) : z.ready = "true"
    /\ clPass[1].local.failureDomains =
          {[name |-> <<"a">>, controlPlane |-> TRUE]}
    /\ clPass[1].local.fdAvailable = FailureDomainsSkippedReason

\* C13 as stated: in the resource a Normal pass leaves, the aggregate
\* failure-domain condition is true only if every matched zone reported
\* ready as of that pass; if no zone matched, the pass leaves the condition
\* as it was.
C13_Original ==
    \A c \in VSphereClusters :
        (ReachedAggregation(c) /\ clPass[c].pc = "patch") =>
            /\ (clPass[c].local.fdAvailable = CondTrue =>
                   \A z \in MatchedZones(c) : z.ready = "true")
            /\ (MatchedZones(c) = {} =>
                   clPass[c].local.fdAvailable = clPass[c].entry.fdAvailable)

\* ---- deletion of the VSphereCluster: the finalizer ----

\* Pass c went through reconcileDelete, which has returned, while the
\* cluster had no VSphereMachine.
DeletingWithoutMachines(c) ==
    /\ clPass[c].pc = "patch"
    /\ clPass[c].path = "delete"
    /\ clPass[c].present = 0

\* The errors reconcileDelete returns.
DeleteErrors ==
    {"unable to list VSphereMachines", "secret get", "secret update",
     "secret delete"} \cup NotFoundErrors

\* C14 as stated: once no VSphereMachine of the cluster remains, the next
\* Deleting pass removes the finalizer of the cluster.
C14_Original ==
    \A c \in VSphereClusters :
        DeletingWithoutMachines(c) => ~clPass[c].local.finalizer

\* C14: a Deleting pass of a cluster without VSphereMachines removes the
\* finalizer exactly when reconcileDelete returns no error; it then asks for
\* no requeue, and the identity secret, when the cluster has one, is gone:
\* it was absent, or the pass removed its finalizer and deleted it.  When the
\* listing or a call of the secret teardown fails, the pass returns that
\* error and keeps the finalizer.  The patch of a pass that removed the
\* finalizer, when it is written, takes the finalizer off the stored
\* resource, which then ceases to exist.
C14_FinalizerRemovedAfterMachinesGone ==
    [][ /\ \A c \in VSphereClusters :
              DeletingWithoutMachines(c)' =>
                 /\ clPass'[c].entry.finalizer
                 /\ (clPass'[c].err = "" <=> ~clPass'[c].local.finalizer)
                 /\ (clPass'[c].err = "" =>
                        /\ clPass'[c].requeueAfter = 0
                        /\ clPass'[c].listed = 0
                        /\ (clPass[c].pc = "idle" /\ IsSecretIdentity(clStore[c])
                               => ~secret'.exists))
                 /\ (clPass'[c].err # "" =>
                        /\ clPass'[c].err \in DeleteErrors
                        /\ ((clPass[c].pc = "idle" /\ secret.exists
                                /\ clPass'[c].err \notin NotFoundErrors)
                               => secret'.exists))
        /\ \A c \in VSphereClusters :
              (/\ DeletingWithoutMachines(c)
               /\ ~clPass[c].local.finalizer
               /\ clPass'[c].pc = "idle"
               /\ clPass'[c].patched = "ok") => ~clStore'[c].exists ]_vars

\* A Deleting pass of a cluster without machines read the identity secret,
\* with the finalizer an earlier Normal pass put on it, removed it and took
\* the finalizer off the cluster.
C14_Witness ==
    /\ DeletingWithoutMachines(1)
    /\ clPass[1].secret.exists
    /\ clPass[1].secret.finalizer
    /\ ~secret.exists
    /\ clPass[1].entry.finalizer
    /\ ~clPass[1].local.finalizer
    /\ clPass[1].err = ""

\* ---- VSphereVM reconciler: the Deleting pass ----

\* The pass on record went through reconcileDelete, which has returned.
DeletePass(pass) == pass.pc = "patch" /\ pass.path = "delete"

\* C15: in a Deleting pass of a VSphereVM the finalizer is removed exactly
\* when DestroyVM returned without error and reported the state not-found.
\* When it reported another state the pass stops without error and keeps the
\* finalizer; when DestroyVM failed the pass returns that error and keeps the
\* finalizer.  The stored finalizer goes away only with the patch of a
\* Deleting pass to which DestroyVM reported not-found.
C15_FinalizerRemovedIffNotFound ==
    [][ /\ DeletePass(vmPass') =>
              /\ vmPass'.entry.finalizer
              /\ (~vmPass'.local.finalizer <=>
                     (vmPass'.err = "" /\ vmPass'.report.state = "notfound"))
              /\ (vmPass'.report.state \in {"pending", "ready"} =>
                     /\ vmPass'.err = ""
                     /\ vmPass'.requeueAfter = 0
                     /\ vmPass'.local.finalizer)
              /\ (vmPass'.report = NoReport =>
                     /\ vmPass'.err = "failed to destroy VM"
                     /\ vmPass'.local.finalizer)
              /\ (vmPass'.report # NoReport =>
                     vmPass'.report.state \in {"pending", "ready", "notfound"})
        /\ (vmStore.finalizer /\ ~vmStore'.finalizer) =>
              /\ DeletePass(vmPass)
              /\ vmPass.err = ""
              /\ vmPass.report.state = "notfound" ]_vars

\* DestroyVM reported not-found to a Deleting pass, which removed the
\* finalizer; the patch of the pass took the resource out of the store.
C15_Witness ==
    /\ vmPass.path = "delete"
    /\ vmPass.pc = "poll"
    /\ vmPass.patched = "ok"
    /\ vmPass.report.state = "notfound"
    /\ vmPass.entry.finalizer
    /\ ~vmPass.local.finalizer
    /\ ~vmStore.exists

\* ---- VSphereVM reconciler: the Normal pass ----

\* A device asks for neither DHCPv4 nor DHCPv6 and has no static address.
DeviceWithoutAddress(devices) ==
    \E i \in DOMAIN devices :
        /\ ~devices[i].dhcp4
        /\ ~devices[i].dhcp6
        /\ devices[i].ipAddrs = <<>>

\* The pass on record went through reconcileNormal, which has returned, and
\* got to its test of the static addresses: no terminal failure is recorded
\* on the resource.
ReachedStaticIPCheck(pass) ==
    /\ pass.pc = "patch"
    /\ pass.path = "normal"
    /\ ~pass.entry.failed

SteadyPass(pass) ==
    /\ pass.path = "normal"
    /\ pass.entry.ready
    /\ pass.entry.finalizer
    /\ (pass.report.state = "ready" =>
           /\ pass.report.biosUUID = pass.entry.biosUUID
           /\ pass.report.network = pass.entry.network)

\* C17: the pass of a VSphereVM that is ready, carries the finalizer and
\* whose inputs are unchanged leaves the object of the pass, summary
\* condition included, as it was fetched, and its deferred patch writes
\* nothing: the stored resource and its resource version are the same after
\* the patch as before.  The pass can therefore be repeated with the same
\* effect.
C17_SteadyPassPatchesNothing ==
    [][ (/\ vmPass.pc = "patch"
         /\ vmPass'.pc = "poll"
         /\ vmPass'.patched = "ok"
         /\ SteadyPass(vmPass))
        => /\ vmPass'.local = vmPass'.entry
           /\ vmStore' = vmStore ]_vars

\* The pass of a ready VM with a finalizer met the report its resource
\* records, patched and left the stored resource as it had fetched it.
C17_Witness ==
    /\ vmPass.pc = "poll"
    /\ vmPass.patched = "ok"
    /\ SteadyPass(vmPass)
    /\ vmPass.report.state = "ready"
    /\ vmPass.report.biosUUID = "abc"
    /\ vmPass.local = vmPass.entry
    /\ vmStore = vmPass.entry

\* ---- VSphereVM reconciler: the terminal failure ----

\* The pass on record went through reconcileNormal on a resource with a
\* failure reason or message.
FailedPass(pass) ==
    /\ pass.pc \in {"patch", "poll"}
    /\ pass.path = "normal"
    /\ pass.entry.failed

\* C18: a Normal pass of a VSphereVM on which a failure reason or message is
\* recorded adds no finalizer, does not call the lifecycle service, returns
\* no error from reconcileNormal and leaves the BIOS UUID, the network
\* status, the addresses and the readiness as it found them; its patch
\* changes none of them in the store.
C18_FailedVMIsLeftAlone ==
    [][ /\ FailedPass(vmPass') =>
              /\ vmPass'.local.finalizer = vmPass'.entry.finalizer
              /\ vmPass'.report = NoReport
              /\ vmPass'.err \in {"", "patch"}
              /\ vmPass'.requeueAfter = 0
              /\ vmPass'.local.biosUUID = vmPass'.entry.biosUUID
              /\ vmPass'.local.network = vmPass'.entry.network
              /\ vmPass'.local.addresses = vmPass'.entry.addresses
              /\ vmPass'.local.ready = vmPass'.entry.ready
              /\ vmPass'.local.provisioned = vmPass'.entry.provisioned
        /\ (FailedPass(vmPass) /\ vmPass.pc = "patch" /\ vmPass'.pc = "poll")
              => /\ vmStore'.finalizer = vmStore.finalizer
                 /\ vmStore'.biosUUID = vmStore.biosUUID
                 /\ vmStore'.network = vmStore.network
                 /\ vmStore'.addresses = vmStore.addresses
                 /\ vmStore'.ready = vmStore.ready ]_vars

\* The pass of a failed VM that has no finalizer yet, with a ready platform
\* VM to report, has patched and left the resource without finalizer and
\* without BIOS UUID.
C18_Witness ==
    /\ FailedPass(vmPass)
    /\ vmPass.pc = "poll"
    /\ vmPass.patched = "ok"
    /\ ~vmPass.entry.finalizer
    /\ vmPlatform.state = "ready"
    /\ vmPlatform.biosUUID = "abc"
    /\ vmStore.failed
    /\ ~vmStore.finalizer
    /\ vmStore.biosUUID = ""

\* ---- VSphereVM reconciler: the BIOS UUID ----

\* C19 as stated: no pass changes a BIOS UUID that is set; Spec.BiosUUID of
\* the stored resource, once non-empty, keeps its value.
C19_Original ==
    [][ vmStore.biosUUID # "" => vmStore'.biosUUID = vmStore.biosUUID ]_vars

\* ---- the identity secret: properties ----

\* Pass c is a Normal pass that got past the failure-domain aggregation, to
\* the call of reconcileIdentitySecret.
ReachedIdentitySecret(c) ==
    /\ clPass[c].pc # "idle"
    /\ clPass[c].path = "normal"
    /\ clPass[c].err # "unable to list deployment zones"
    /\ clPass[c].local.fdAvailable # WaitingForFailureDomainStatusReason

ProbeFailed(pass) ==
    /\ pass.path = "normal"
    /\ pass.pc = "patch"
    /\ pass.err \in {"credentials", "session"}

\* C21: when the resolution of the credentials or GetOrCreate fails in a
\* Normal pass of the cluster reconciler, the pass returns that error with the
\* availability condition false for the reason VCenterUnreachable, its
\* readiness as the pass read it, and nothing of the later steps done (no
\* poller trigger); and a Normal pass turns the availability condition or the
\* readiness to true only when it returns no error and GetOrCreate was called
\* with credentials.
C21_FailedProbeMarksUnreachable ==
    \A c \in VSphereClusters :
       LET pass == clPass[c] IN
       /\ ProbeFailed(pass) =>
             /\ pass.local.vcenter = VCenterUnreachableReason
             /\ pass.local.ready = pass.entry.ready
             /\ pass.trigger = "none"
             /\ (pass.err = "credentials") = (pass.creds = "none")
       /\ ( /\ pass.path = "normal"
            /\ pass.pc # "idle"
            /\ \/ pass.local.vcenter = CondTrue /\ pass.entry.vcenter # CondTrue
               \/ pass.local.ready /\ ~pass.entry.ready )
          => /\ pass.err = ""
             /\ pass.creds # "none"
             /\ pass.local.vcenter = CondTrue
             /\ pass.local.ready

\* A pass whose GetOrCreate failed with the manager's credentials, on a
\* cluster that an earlier pass had made ready.
C21_Witness ==
    \E c \in VSphereClusters :
       /\ ProbeFailed(clPass[c])
       /\ clPass[c].err = "session"
       /\ clPass[c].creds = "manager"
       /\ clPass[c].entry.vcenter = CondTrue
       /\ clPass[c].entry.ready

\* ---- C22: a VM pass that cannot obtain a session ----

\* C22 as stated: when retrieveVcenterSession fails, the pass of the VM
\* reconciler returns that error and the stored VSphereVM carries the
\* availability condition false for the reason VCenterUnreachable, written by
\* that pass.
C22_Original ==
    vmPass.path = "sessionErr" =>
       /\ vmPass.err = "session"
       /\ vmPass.local.vcenter = VCenterUnreachableReason
       /\ vmStore.vcenter = VCenterUnreachableReason

\* ---- C23: the error of a pass whose patch fails ----

\* The deferred patch of the VM reconciler runs in this step.
VMPatchStep == vmPass.pc = "patch" /\ vmPass'.pc = "poll"

\* The deferred patch of the cluster reconciler runs in this step.
ClusterPatchStep(c) == clPass[c].pc = "patch" /\ clPass'[c].pc = "idle"

\* C23: in both reconcilers, a pass whose deferred patch fails reports the
\* patch error when its logic returned no error and the error of its logic
\* otherwise; a pass whose patch succeeds reports what its logic returned.
C23_PatchErrorOnlyWhenNoError ==
    [][ /\ VMPatchStep =>
           /\ (vmPass'.patched = "failed" /\ vmPass.err = "")
                 => vmPass'.err = "patch"
           /\ vmPass.err # "" => vmPass'.err = vmPass.err
           /\ vmPass'.patched = "ok" => vmPass'.err = vmPass.err
           /\ vmPass'.patched = "failed" => vmStore' = vmStore
        /\ \A c \in VSphereClusters :
              ClusterPatchStep(c) =>
                 /\ (clPass'[c].patched = "failed" /\ clPass[c].err = "")
                       => clPass'[c].err = "patch"
                 /\ clPass[c].err # "" => clPass'[c].err = clPass[c].err
                 /\ clPass'[c].patched = "ok" => clPass'[c].err = clPass[c].err
                 /\ clPass'[c].patched = "failed" => clStore' = clStore
      ]_vars

\* Both reconcilers have returned from a pass whose logic failed and whose
\* patch failed too, each reporting the error of its logic.
C23_Witness ==
    /\ vmPass.patched = "failed"
    /\ vmPass.err \notin {"", "patch"}
    /\ \E c \in VSphereClusters :
          /\ clPass[c].pc = "idle"
          /\ clPass[c].patched = "failed"
          /\ clPass[c].err \notin {"", "patch"}

\* ---- C24: the "not ready yet" signals of the VM reconciler ----

\* The pass stopped because the lifecycle service reported a state other
\* than ready.
StateNotReady(pass) ==
    /\ ReachedStaticIPCheck(pass)
    /\ pass.report # NoReport
    /\ pass.report.state # "ready"

\* The pass stopped at the test of the static addresses.
StaticIPUnassigned(pass) ==
    /\ ReachedStaticIPCheck(pass)
    /\ DeviceWithoutAddress(pass.entry.devices)

\* The pass took a ready report with a BIOS UUID and no address in it.
EmptyAddressList(pass) ==
    /\ ReachedStaticIPCheck(pass)
    /\ pass.report.state = "ready"
    /\ pass.report.biosUUID # ""
    /\ IPAddrsOf(pass.report.network) = <<>>

RetrievedSession(pass) == pass.lookup # "none"

\* C25: in a pass of the VM reconciler, when the owning Cluster or its
\* VSphereCluster is not found, or the VSphereCluster has no identity
\* reference, GetOrCreate is called with the credentials of the manager; when
\* the identity reference is there and its credentials cannot be resolved,
\* the pass fails and GetOrCreate is not called; and the credentials of the
\* identity are used only when they were resolved.
C25_ManagerCredentialsUnlessIdentity ==
    RetrievedSession(vmPass) =>
       /\ vmPass.lookup \in {"notFound", "noIdentityRef"}
             => vmPass.creds = "manager"
       /\ vmPass.lookup = "credentialsErr"
             => /\ vmPass.creds = "none"
                /\ vmPass.err = "session"
                /\ vmPass.path = "sessionErr"
       /\ vmPass.lookup = "identityRef" => vmPass.creds = "identity"

\* A pass failed on the credentials of an identity reference, after a pass
\* that had run with a session.
C25_Witness ==
    /\ vmPass.lookup = "credentialsErr"
    /\ vmPass.creds = "none"
    /\ vmPass.err = "session"
    /\ vmPass.entry.finalizer

\* ---- C26: clearCache ----

\* Thread t takes the step of clearCache that leaves `from`.
ClrStep(t, from) == clr[t].pc = from /\ clr'[t].pc # from

\* C26: a call of clearCache that finds no entry for the key attempts no
\* logout and, with no entry stored for the key while it runs, leaves the
\* cache as it is; a call that finds an entry goes through both logouts
\* whatever they answer; and every call ends with the cache holding no entry
\* for the key and its entries for the other keys untouched, so that a second
\* call is a call that finds no entry.
C26_ClearCacheAlwaysEvicts ==
    [][ \A t \in Threads :
          /\ ClrStep(t, "load") =>
                IF sessionCache[clr[t].key] = 0
                THEN /\ clr'[t].pc = "delete"
                     /\ clr'[t].s = 0
                ELSE /\ clr'[t].pc = "logoutTM"
                     /\ clr'[t].s = sessionCache[clr[t].key]
          /\ ClrStep(t, "logoutTM") =>
                /\ clr[t].s # 0
                /\ clr'[t].pc = "logoutVim"
          /\ ClrStep(t, "logoutVim") =>
                /\ clr[t].s # 0
                /\ clr'[t].pc = "delete"
          /\ ClrStep(t, "delete") =>
                /\ clr'[t].pc = "idle"
                /\ sessionCache'[clr[t].key] = 0
                /\ \A k \in Keys \ {clr[t].key} :
                      sessionCache'[k] = sessionCache[k]
                /\ (clr[t].s = 0 /\ sessionCache[clr[t].key] = 0) =>
                      /\ sessionCache' = sessionCache
                      /\ vimLive' = vimLive
                      /\ restLive' = restLive
                      /\ tmLogoutTried' = tmLogoutTried
                      /\ vimLogoutTried' = vimLogoutTried
      ]_vars

\* A call of clearCache has ended for a Session whose two logouts were
\* attempted and failed: its platform sessions live on, its entry is gone.
C26_Witness ==
    /\ \A t \in Threads : clr[t].pc = "idle"
    /\ \E id \in DOMAIN sessions :
          /\ id \in tmLogoutTried \cap vimLogoutTried
          /\ id \in restLive \cap vimLive
          /\ sessionCache[sessions[id].key] = 0

\* ---- C27: a Normal pass with the control-plane endpoint unset ----

\* A Normal pass of the cluster reconciler that has marked the availability
\* and the readiness true and has gone past the call of
\* reconcileVSphereClusterWhenAPIServerIsOnline.
PastTrigger(pass) ==
    /\ pass.path = "normal"
    /\ pass.pc \in {"unlock", "rest", "patch"}
    /\ pass.err = ""
    /\ pass.local.vcenter = CondTrue
    /\ pass.local.ready

\* C27 as stated: a Normal pass that finds the control-plane endpoint unset
\* stops after marking the availability and the readiness true: it spawns no
\* poller and leaves the conditions of the dependent services as they were;
\* a pass spawns the poller only when the endpoint is set and the owner
\* Cluster is not being deleted.
C27_Original ==
    \A c \in VSphereClusters :
       LET pass == clPass[c] IN
       PastTrigger(pass) =>
          /\ pass.trigger = "spawned" =>
                (pass.entry.endpoint /\ ~pass.cluster.deleting)
          /\ ~pass.entry.endpoint =>
                /\ pass.local.ccm = pass.entry.ccm
                /\ pass.local.csi = pass.entry.csi

\* ---- C28: the poll after the patch ----

\* What a Get of the stored resource shows to the poll of the pass on record.
StoreGone == ~vmStore.exists
StoreNewer == vmStore.exists /\ vmStore.rv > vmPass.entry.rv
StoreSameAndEqual ==
    /\ vmStore.exists
    /\ vmStore.rv = vmPass.entry.rv
    /\ StatusOf(vmStore) = StatusOf(vmPass.local)
StoreSameAndDifferent ==
    /\ vmStore.exists
    /\ vmStore.rv = vmPass.entry.rv
    /\ StatusOf(vmStore) # StatusOf(vmPass.local)

\* C28: after the patch of a pass of the VM reconciler, whether it succeeded
\* or not, a round of the poll ends the poll only when the stored resource is
\* gone, has a version newer than the one the pass read at its entry, or has
\* that version and a status equal to the one the pass wrote; a round that
\* does not end it met an error of the Get on a resource that is there, or
\* that version with a different status, and the poll then sleeps and polls
\* again, without giving up.
C28_PollEndsOnThreeObservations ==
    [][ /\ (vmPass.pc = "patch" /\ vmPass' # vmPass) => vmPass'.pc = "poll"
        /\ (vmPass.pc = "poll" /\ vmPass'.pc = "idle") =>
              (StoreGone \/ StoreNewer \/ StoreSameAndEqual)
        /\ (vmPass.pc = "poll" /\ vmPass' # vmPass /\ vmPass'.pc # "idle") =>
              /\ vmPass'.pc = "sleep"
              /\ vmPass'.observed \in {"getErr", "notPatched"}
              /\ vmPass'.observed = "getErr" => vmStore.exists
              /\ vmPass'.observed = "notPatched" => StoreSameAndDifferent
        /\ (vmPass.pc = "sleep" /\ vmPass' # vmPass) => vmPass'.pc = "poll"
      ]_vars

\* The poll sleeps after a round that saw the version of the entry with a
\* status other than the one the pass wrote.
C28_Witness ==
    /\ vmPass.pc = "sleep"
    /\ vmPass.observed = "notPatched"
    /\ StoreSameAndDifferent
    /\ vmPass.patched = "failed"

\* ---- C29: not-found errors in the teardown of the identity secret ----

\* C29 as stated: a Deleting pass of a cluster without VSphereMachines whose
\* teardown of the identity secret meets nothing but not-found errors, at the
\* Get, the Update or the Delete, removes the finalizer of the cluster and
\* returns no error.
C29_Original ==
    \A c \in VSphereClusters :
       ( /\ DeletingWithoutMachines(c)
         /\ IsSecretIdentity(clPass[c].entry)
         /\ clPass[c].err \in {""} \cup NotFoundErrors )
       => /\ clPass[c].err = ""
          /\ ~clPass[c].local.finalizer

\* ---- C30: a matched zone that has not reported its readiness ----

\* Pass c listed a zone of its cluster's server, adopted by its cluster, whose
\* Status.Ready is nil.
MatchedZoneNotReported(c) ==
    /\ ReachedAggregation(c)
    /\ \E z \in MatchedZones(c) : z.ready = "nil"

\* What C30 says of such a pass whatever it does next: the aggregate
\* condition is false for the reason WaitingForFailureDomainStatus, the pass
\* returns without error, and none of the later steps ran: the identity
\* secret is as the pass found it, GetOrCreate was not called, the
\* availability and the readiness are as they were, and
\* reconcileVSphereClusterWhenAPIServerIsOnline was not called.
Deferred(c) ==
    /\ clPass[c].pc = "patch"
    /\ clPass[c].local.fdAvailable = WaitingForFailureDomainStatusReason
    /\ clPass[c].err = ""
    /\ secret = clPass[c].secret
    /\ clPass[c].creds = "none"
    /\ clPass[c].local.vcenter = clPass[c].entry.vcenter
    /\ clPass[c].local.ready = clPass[c].entry.ready
    /\ clPass[c].trigger = "none"

\* C30 as stated: such a pass defers and asks for no requeue, relying on the
\* next trigger.
C30_Original ==
    \A c \in VSphereClusters :
       MatchedZoneNotReported(c) =>
          (Deferred(c) /\ clPass[c].requeueAfter = 0)

\* C30, amended: a Normal pass that lists a matched zone without a reported
\* readiness marks the aggregate condition false for the waiting reason and
\* defers, performing none of the later steps; it returns without error and
\* asks for a requeue after 10 seconds.
C30_WaitsForZoneStatus ==
    \A c \in VSphereClusters :
       MatchedZoneNotReported(c) =>
          (Deferred(c) /\ clPass[c].requeueAfter = TenSeconds)

\* A pass deferred on one zone while the other had reported ready and every
\* call would have succeeded: the cluster is not ready and the identity
\* secret has no owner yet.
C30_Witness ==
    /\ MatchedZoneNotReported(1)
    /\ Deferred(1)
    /\ clPass[1].requeueAfter = TenSeconds
    /\ \E z \in MatchedZones(1) : z.ready = "true"
    /\ ~clPass[1].local.ready
    /\ secret = NewSecret(NoOwner)

\* ---- C31 ----

\* A Normal pass of the cluster reconciler has arrived at its return statement.
NormalReturn(c) ==
    /\ clPass[c].pc # "patch"
    /\ clPass'[c].pc = "patch"
    /\ clPass'[c].path = "normal"

\* The owner Cluster, as the pass read it, is being deleted.
OwnerDeleting(pass) ==
    /\ pass.path = "normal"
    /\ pass.pc = "patch"
    /\ pass.cluster.deleting

\* C31 as stated, second half: a Normal pass of the cluster reconciler that
\* read an owner Cluster under deletion returns with the conditions
\* CCMAvailable and CSIAvailable false for the reason Deleting.
C31_Original ==
    \A c \in VSphereClusters :
        OwnerDeleting(clPass[c]) =>
            /\ clPass[c].local.ccm = DeletingReason
            /\ clPass[c].local.csi = DeletingReason

\* C31: a Normal pass of the cluster reconciler returns with CSIAvailable or
\* CCMAvailable newly true only if its connectivity probe succeeded, the
\* control-plane endpoint it read is set, the owner Cluster it read is not
\* being deleted and the workload API server answered the listing call; a
\* pass that read an owner Cluster under deletion marks nothing true, and
\* when it got past the connectivity probe and found the endpoint set it
\* returns with both conditions false for the reason Deleting.
C31_ServicesTrueOnlyWhenOnline ==
    [][\A c \in VSphereClusters :
          NormalReturn(c) =>
              LET pass == clPass'[c] IN
              /\ (pass.local.csi = CondTrue /\ pass.entry.csi # CondTrue) =>
                     /\ pass.err = ""
                     /\ pass.local.vcenter = CondTrue
                     /\ pass.entry.endpoint
                     /\ ~pass.cluster.deleting
                     /\ apiOnline[pass.cluster.uid]
              /\ (pass.local.ccm = CondTrue) => (pass.entry.ccm = CondTrue)
              /\ (/\ pass.cluster.deleting
                  /\ pass.err = ""
                  /\ pass.requeueAfter = 0
                  /\ pass.local.vcenter = CondTrue
                  /\ pass.entry.endpoint) =>
                     /\ pass.local.ccm = DeletingReason
                     /\ pass.local.csi = DeletingReason]_vars

\* A pass marked CSIAvailable true, and a later pass that read the owner
\* Cluster under deletion has marked both conditions false.
C31_Witness ==
    \E c \in VSphereClusters :
        /\ OwnerDeleting(clPass[c])
        /\ clPass[c].entry.csi = CondTrue
        /\ clPass[c].local.csi = DeletingReason
        /\ clPass[c].local.ccm = DeletingReason

\* ---- C32 ----

\* The addresses that the interfaces of a reported network status carry.
ReportedAddresses(network) ==
    UNION {{network[i].ipAddrs[j] : j \in DOMAIN network[i].ipAddrs} :
              i \in DOMAIN network}

\* The pass on record returned with the readiness or the provisioned
\* condition true where the resource it read had it not.
SetReady(pass) ==
    /\ pass.pc = "patch"
    /\ \/ pass.local.ready /\ ~pass.entry.ready
       \/ pass.local.provisioned = CondTrue
              /\ pass.entry.provisioned # CondTrue

\* C32: a pass of the VM reconciler returns with the readiness or the
\* provisioned condition newly true only if it is a Normal pass without error
\* in which ReconcileVM reported the state ready with a BIOS UUID and at least
\* one interface with an address, and then both are true and Status.Addresses
\* holds the addresses of all the reported interfaces; a Normal pass that
\* took a ready report with a BIOS UUID and no address in it returns without
\* error, asks for a requeue after ten seconds and leaves the readiness and
\* the provisioned condition as it read them.
C32_ReadyOnlyWithAddresses ==
    /\ SetReady(vmPass) =>
          /\ vmPass.path = "normal"
          /\ vmPass.err = ""
          /\ vmPass.requeueAfter = 0
          /\ vmPass.report.state = "ready"
          /\ vmPass.report.biosUUID # ""
          /\ ReportedAddresses(vmPass.report.network) # {}
          /\ vmPass.local.ready
          /\ vmPass.local.provisioned = CondTrue
    /\ (/\ ReachedStaticIPCheck(vmPass)
        /\ vmPass.report.state = "ready"
        /\ vmPass.report.biosUUID # "") =>
          /\ {vmPass.local.addresses[j] : j \in DOMAIN vmPass.local.addresses}
                = ReportedAddresses(vmPass.report.network)
          /\ vmPass.local.network = vmPass.report.network
    /\ (/\ ReachedStaticIPCheck(vmPass)
        /\ vmPass.report.state = "ready"
        /\ vmPass.report.biosUUID # ""
        /\ ReportedAddresses(vmPass.report.network) = {}) =>
          /\ vmPass.err = ""
          /\ vmPass.requeueAfter = TenSeconds
          /\ vmPass.local.ready = vmPass.entry.ready
          /\ vmPass.local.provisioned = vmPass.entry.provisioned

\* A Normal pass took a ready report whose second interface has an address,
\* and returned with the readiness and the provisioned condition newly true.
C32_Witness ==
    /\ SetReady(vmPass)
    /\ ~vmPass.entry.ready
    /\ vmPass.local.ready
    /\ vmPass.report.network = NetOnline
    /\ vmPass.local.addresses = <<"10.0.0.1">>

\* ---- C33 ----

\* The mapping function was called on a VSphereMachine.
MappedMachine ==
    machineEvent.object.kind = "VSphereMachine"

\* C33: an event of a VSphereMachine maps to a reconcile request, and then to
\* the request of its own VSphereCluster only, exactly when the machine is of
\* the control plane, it has addresses and GetMachinePreferredIPAddress
\* resolved one, the Cluster and the VSphereCluster were found, the
\* ControlPlaneInitialized condition of the Cluster is not true, and the
\* control-plane endpoint is set neither on the Cluster nor on the
\* VSphereCluster; so no request is returned once either endpoint is set.
C33_RequestIffControlPlaneNotInitialized ==
    MappedMachine =>
        /\ (machineEvent.requests # {}) <=>
               /\ machineEvent.object.controlPlane
               /\ Len(machineEvent.object.addresses) > 0
               /\ machineEvent.preferred = "resolved"
               /\ machineEvent.fault = "none"
               /\ machineEvent.cluster.exists
               /\ machineEvent.vsphereCluster.exists
               /\ ~machineEvent.cluster.cpInit
               /\ ~machineEvent.cluster.endpoint
               /\ ~machineEvent.vsphereCluster.endpoint
        /\ machineEvent.requests \subseteq {machineEvent.vsphereCluster.id}
        /\ (machineEvent.cluster.endpoint
               \/ machineEvent.vsphereCluster.endpoint) =>
               machineEvent.requests = {}

\* An event of a control-plane machine with a resolved address was mapped to
\* the request of its VSphereCluster, which waits for a pass.
C33_Witness ==
    /\ MappedMachine
    /\ machineEvent.requests = {1}
    /\ machineEvent.object.addresses = <<"10.0.0.1", "10.0.0.2">>
    /\ clEvents[1]

\* ---- C34 ----

\* clearCache has issued the logout of the REST session or of the SOAP
\* session of Session s, and that session is not alive.
LoggedOutByClearCache(s) ==
    \/ s \in tmLogoutTried /\ s \notin restLive
    \/ s \in vimLogoutTried /\ s \notin vimLive

\* GetOrCreate of caller c returns a Session in this step.
ReturnsSession(c) ==
    /\ call[c].pc # "done"
    /\ call'[c].pc = "done"
    /\ call'[c].result > 0

\* C34 as stated: under any interleaving of GetOrCreate calls and keep-alive
\* evictions, no call of GetOrCreate returns a Session of which clearCache
\* has already logged out the REST session or the SOAP session.
C34_Original ==
    [][\A c \in Callers :
          ReturnsSession(c) => ~LoggedOutByClearCache(call'[c].result)]_vars

\* ---- C35 ----

\* The thread that runs the keep-alive callback of Session id.
EvictionOf(id) == KAThread(id)

\* C35 as stated: the clearCache that the failed keep-alive probe of Session
\* id runs loads and logs out no Session but id, and removes from the cache
\* no Session but id, and that one only after it loaded it and issued both
\* logouts on it.
C35_Original ==
    [][\A id \in Ids :
          LET t == EvictionOf(id) IN
          /\ (clr[t].pc = "load" /\ clr'[t].pc # "load") =>
                 clr'[t].s \in {0, id}
          /\ (clr[t].pc = "delete" /\ clr'[t].pc = "idle"
                 /\ sessionCache[clr[t].key] # 0) =>
                 /\ sessionCache[clr[t].key] = id
                 /\ clr[t].s = id
                 /\ id \in tmLogoutTried
                 /\ id \in vimLogoutTried]_vars

\* ---- C36 ----

\* GetOrCreate of caller c has returned a Session.
ReturnedSession(c) == call[c].pc = "done" /\ call[c].result > 0

\* C36 as stated: the Session that GetOrCreate returns was created for the
\* server, the username and the datacenter of the call.
C36_Original ==
    \A c \in Callers :
        ReturnedSession(c) =>
            LET s == sessions[call[c].result] IN
            /\ s.server = call[c].params.server
            /\ s.username = call[c].params.username
            /\ s.datacenter = call[c].params.datacenter

\* ---- C37 ----

\* C37 as stated: the Session that GetOrCreate returns was logged in with the
\* password of the call and pinned to the thumbprint of the call.
C37_Original ==
    \A c \in Callers :
        ReturnedSession(c) =>
            /\ sessions[call[c].result].password = call[c].params.password
            /\ sessions[call[c].result].thumbprint = call[c].params.thumbprint

\* C37: a call of GetOrCreate that returns a Session either built it, and
\* then the Session was logged in with the username and the password of the
\* call and pinned to its thumbprint, or found it in the cache under its key
\* and returns it as it is, whatever password and thumbprint the call passes.
C37_BuiltWithCredentialsOfCall ==
    \A c \in Callers :
        ReturnedSession(c) =>
            LET s == sessions[call[c].result] IN
            IF call[c].built # 0
            THEN /\ call[c].result = call[c].built
                 /\ s.username = call[c].params.username
                 /\ s.password = call[c].params.password
                 /\ s.thumbprint = call[c].params.thumbprint
            ELSE /\ call[c].result = call[c].cached
                 /\ s.key = SessionKey(call[c].params)

\* A call with the password "q" was handed the cached Session that an
\* earlier call logged in with the password "p".
C37_Witness ==
    \E c \in Callers :
        /\ ReturnedSession(c)
        /\ call[c].built = 0
        /\ call[c].params.password = "q"
        /\ sessions[call[c].result].password = "p"

\* ---- C38 ----

\* C38 as stated: while no other writer changes or deletes the resource and
\* the store answers the Get of the poll, every pass of the VM reconciler
\* that has started returns, whether its deferred patch wrote the resource,
\* wrote nothing or failed.
C38_Original == (vmPass.pc # "idle") ~> (vmPass.pc = "idle")

\* ---- C39 ----

\* C39 as stated: a stored VSphereVM whose Status.Ready is true has addresses
\* in Status.Addresses and a BIOS UUID in Spec.BiosUUID, after any sequence of
\* passes and their patches.
C39_Original ==
    (vmStore.exists /\ vmStore.ready) =>
        /\ Len(vmStore.addresses) > 0
        /\ vmStore.biosUUID # ""

\* ---- C40 ----

\* C40: with a store that rejects an Update made on a stale resource version,
\* the calls of reconcileIdentitySecret of two clusters that name the same
\* Secret, interleaved in any way, never change an owner reference that is
\* set; a call that ends without error leaves the Secret owned by its own
\* cluster, so a call of the other cluster ends with an error; and the two
\* clusters never both have a call that ended without error.
C40_OneOwner ==
    [][/\ (secret.owner # NoOwner) => (secret'.owner = secret.owner)
       /\ \A c \in VSphereClusters :
             (idPass'[c] # idPass[c] /\ idPass'[c].result = "ok") =>
                 secret'.owner = c
       /\ \A c, d \in VSphereClusters :
             (idPass'[c].result = "ok" /\ idPass'[d].result = "ok") => c = d
       /\ \A c \in VSphereClusters :
             (idPass'[c] # idPass[c] /\ idPass'[c].pc = "idle"
                 /\ secret'.owner # c) => idPass'[c].result \notin {"none", "ok"}
      ]_vars

\* Both clusters fetched the Secret while it had no owner; the Update of
\* cluster 1 went through and the Update of cluster 2 was rejected.
C40_Witness ==
    /\ idPass[1].result = "ok"
    /\ idPass[2].result = "conflict"
    /\ secret.owner = 1
    /\ secret.finalizer

=============================================================================
